---- MODULE Spec2Model ----
(***************************************************************************)
(* Model of the Wiring / WiringBuilder merge-and-materialize engine        *)
(* (wiring.js).                                                            *)
(*                                                                         *)
(* Wiring objects live in a heap (a sequence of records, a reference is an *)
(* index) because the code shares them by reference: the resolution map of *)
(* a clone holds the very supplied Wiring objects of its source.           *)
(*                                                                         *)
(* A string used as a key of _containerAdjusters / _wiringAdjusters is     *)
(* modelled by the sequence of its components, key.split('.'): '' is       *)
(* <<"">>, '.A.B' is <<"", "A", "B">>, 'A.B' is <<"A", "B">>.  An adjuster  *)
(* collection (a JS object) is the sequence of its entries in insertion    *)
(* order, which is the order Object.entries iterates.                      *)
(***************************************************************************)
EXTENDS Integers, Sequences, FiniteSets, TLC

VARIABLES
    heap,       \* the Wiring objects; heap[r] is the object with reference r
    builder,    \* WiringBuilder#_wiring of the builder (0: not constructed)
    nops,       \* number of builder calls made so far
    regs,       \* history: the builder calls made, in order
    built,      \* the wirings returned by build(), in order
    builtAt,    \* history: Len(regs) at the time of each build()
    calls       \* the creation calls: createContainer, createContainerFactory and
                \* factory invocations, each with its private working wiring

vars == <<heap, builder, nops, regs, built, builtAt, calls>>

---------------------------------------------------------------------------
(* Bounds of the model *)

MaxOps == 3          \* builder calls, in Spec
MaxCalls == 3        \* creation calls, in Spec
MaxOpsBuild == 2     \* builder calls, in SpecBuild
MaxBuilds == 2       \* build() calls, in SpecBuild
MaxCallsBuild == 2   \* creation calls, in SpecBuild
MaxOpsImport == 3    \* builder calls, in SpecImport
MaxCallsImport == 2  \* creation calls, in SpecImport
MaxOpsAdjust == 4    \* adjustContainer calls, in SpecAdjust
MaxOpsOrder == 3     \* builder calls, in SpecOrder
MaxOpsConc == 2      \* builder calls, in SpecConc
MaxOpsAfter == 2     \* builder calls, in SpecAfter
MaxCallsAfter == 3   \* creation calls, in SpecAfter
MaxOpsFactory == 2   \* builder calls, in SpecFactory
MaxCallsFactory == 3 \* creations and factory calls, in SpecFactory
MaxOpsOnce == 3      \* builder calls, in SpecOnce
MaxOpsNested == 3    \* builder calls, in SpecNested
MaxOpsInvalid == 2   \* builder calls, in SpecInvalid
MaxOpsCreate == 2    \* builder calls, in SpecCreate
MaxCallsCreate == 2  \* creation calls, in SpecCreate
MaxOpsThrow == 3     \* builder calls, in SpecThrow
MaxCallsThrow == 2   \* creation calls, in SpecThrow
MaxOpsDesc == 3      \* builder calls, in SpecDesc
MaxOpsTerm == 2      \* builder calls, in SpecTerm
MaxCallsTerm == 2    \* creation calls, in SpecTerm
MaxOpsStruct == 1    \* builder calls, in SpecStruct
MaxBuildersStruct == 2 \* StructuredWiringBuilder instances, in SpecStruct
MaxCallsStruct == 2  \* creation calls, in SpecStruct
MaxOpsCallback == 2  \* builder calls, in SpecCallback
MaxCallsCallback == 2 \* creation calls, in SpecCallback
MaxOpsSub == 2       \* builder calls, in SpecSub
MaxCallsSub == 2     \* creation calls, in SpecSub
MaxOpsArgs == 2      \* builder calls, in SpecArgs
MaxCallsArgs == 2    \* creation calls, in SpecArgs
MaxArgs == 2         \* arguments a caller passes after the type, in SpecArgs

---------------------------------------------------------------------------
(* Values *)

UNDEF == -1
NULL == 0
NOFN == ""
OVERFLOW == "RangeError: Maximum call stack size exceeded"

ROOT == <<"">>
TA == <<"A">>
TAB == <<"A", "B">>
TABC == <<"A", "B", "C">>
TAC == <<"A", "C">>
TP == <<"P">>
TBoot == <<"Boot">>
TApp == <<"App">>

\* every function identity of the model: container adjusters and wiring adjusters
Fns ==
    {"a", "b", "x", "y", "z", "f", "g", "h", "r", "n", "m", "v", "w", "s",
     "p", "q", "_populateBootContainer", "_populateAppContainer"}

\* `.${containerType}`
CKey(t) == <<"">> \o t

\* maybeDescendentType.startsWith(`${containerType}.`)
StartsWithDot(m, k) == Len(m) > Len(k) /\ SubSeq(m, 1, Len(k)) = k

\* t is T itself or an ancestor of T in the dotted hierarchy
IsSelfOrAncestor(t, T) == t = T \/ StartsWithDot(T, t)

Has(coll, k) == \E i \in 1..Len(coll) : coll[i].k = k
Idx(coll, k) == CHOOSE i \in 1..Len(coll) : coll[i].k = k
Get(coll, k) == coll[Idx(coll, k)].l
Keys(coll) == {coll[i].k : i \in 1..Len(coll)}
SetList(coll, k, list) == [coll EXCEPT ![Idx(coll, k)].l = list]

EmptyWiring(cls) ==
    [ca |-> <<>>, wa |-> <<>>, sup |-> [f \in Fns |-> UNDEF], cls |-> cls]

---------------------------------------------------------------------------
(* Wiring: the adjuster registry *)

\* a registry that never looks at the ancestors of a new type
NoAncestorAdjusters(coll, k) == <<>>

RECURSIVE _getAncestorAdjusters(_, _)
_getAncestorAdjusters(coll, k) ==
    IF Len(k) <= 1 THEN <<>>
    ELSE LET ancestor == SubSeq(k, 1, Len(k) - 1)
         IN  IF Has(coll, ancestor) THEN Get(coll, ancestor)
             ELSE _getAncestorAdjusters(coll, ancestor)

\* a registry that starts the list of a new type empty
EnsureEmpty(coll, k) ==
    IF Has(coll, k) THEN coll ELSE Append(coll, [k |-> k, l |-> <<>>])

_ensureContainerTypeExists(coll, k) ==
    IF Has(coll, k) THEN coll
    ELSE Append(coll, [k |-> k, l |-> _getAncestorAdjusters(coll, k)])

\* a registry that puts new adjusters at the front of a list
UnshiftAdjusters(list, adjusters) == adjusters \o list

_pushAdjusters(list, adjusters) == list \o adjusters

\* a registry that leaves the known descendants of a type alone
NoPushIntoDescendants(coll, k, adjusters) == coll

_pushAdjustersIntoDescendants(coll, k, adjusters) ==
    [i \in 1..Len(coll) |->
        IF StartsWithDot(coll[i].k, k)
        THEN [coll[i] EXCEPT !.l = _pushAdjusters(@, adjusters)]
        ELSE coll[i]]

\* a merge that leaves the descendants of a merged type alone
NoPushIntoUnknownDescendants(coll, k, adjusters, reference) == coll

_pushAdjustersIntoUnknownDescendants(coll, k, adjusters, reference) ==
    [i \in 1..Len(coll) |->
        IF StartsWithDot(coll[i].k, k) /\ ~Has(reference, coll[i].k)
        THEN [coll[i] EXCEPT !.l = _pushAdjusters(@, adjusters)]
        ELSE coll[i]]

\* a registry that files an adjuster under the parent of its type as well
AddAdjusterToParentToo(coll, k, adjuster) ==
    LET c1 == _ensureContainerTypeExists(coll, k)
        c2 == SetList(c1, k, _pushAdjusters(Get(c1, k), <<adjuster>>))
        parent == SubSeq(k, 1, Len(k) - 1)
        c3 == IF Len(k) > 2 /\ Has(c2, parent)
              THEN SetList(c2, parent, _pushAdjusters(Get(c2, parent), <<adjuster>>))
              ELSE c2
    IN  _pushAdjustersIntoDescendants(c3, k, <<adjuster>>)

_addAdjuster(coll, k, adjuster) ==
    LET c1 == _ensureContainerTypeExists(coll, k)
        c2 == SetList(c1, k, _pushAdjusters(Get(c1, k), <<adjuster>>))
    IN  _pushAdjustersIntoDescendants(c2, k, <<adjuster>>)

RECURSIVE AddAdjustersFrom(_, _, _)
AddAdjustersFrom(coll, source, i) ==
    IF i > Len(source) THEN coll
    ELSE LET k == source[i].k
             c1 == _ensureContainerTypeExists(coll, k)
             c2 == SetList(c1, k, _pushAdjusters(Get(c1, k), source[i].l))
             c3 == _pushAdjustersIntoUnknownDescendants(c2, k, source[i].l, source)
         IN  AddAdjustersFrom(c3, source, i + 1)

_addAdjusters(coll, source) == AddAdjustersFrom(coll, source, 1)

\* a merge of the resolution maps in which the entry of the added wiring
\* replaces the one already held
AddSuppliedWiringOverwriting(sup, sourceSup) ==
    [f \in Fns |-> IF sourceSup[f] # UNDEF THEN sourceSup[f] ELSE sup[f]]

_addSuppliedWiring(sup, sourceSup) ==
    [f \in Fns |-> IF sup[f] = UNDEF THEN sourceSup[f] ELSE sup[f]]

\* a registration that does not enter the wiring adjuster in the resolution map
NoSuppliedWiringKey(sup, f) == sup

_ensureSuppliedWiringKeyExists(sup, f) ==
    IF sup[f] = UNDEF THEN [sup EXCEPT ![f] = NULL] ELSE sup

\* a registration that makes every ancestor of the adjusted type known as well
RECURSIVE EnsureWithAncestors(_, _)
EnsureWithAncestors(coll, k) ==
    IF Len(k) <= 1 THEN coll
    ELSE _ensureContainerTypeExists(
             EnsureWithAncestors(coll, SubSeq(k, 1, Len(k) - 1)), k)

AdjustContainerWithAncestors(w, t, adjuster) ==
    [w EXCEPT !.ca = _addAdjuster(EnsureWithAncestors(@, CKey(t)), CKey(t), adjuster),
              !.wa = _ensureContainerTypeExists(@, t)]

_adjustContainer(w, t, adjuster) ==
    [w EXCEPT !.ca = _addAdjuster(@, CKey(t), adjuster),
              !.wa = _ensureContainerTypeExists(@, t)]

\* a registration that files every wiring adjuster under the base key
AdjustLikeBase(w, k, adjuster) ==
    LET ca1 == IF k # ROOT THEN _ensureContainerTypeExists(w.ca, CKey(k)) ELSE w.ca
    IN  [w EXCEPT !.wa = _addAdjuster(@, ROOT, adjuster),
                  !.ca = _addAdjuster(ca1, ROOT, adjuster),
                  !.sup = _ensureSuppliedWiringKeyExists(@, adjuster)]

\* k is the key of _wiringAdjusters: ROOT ('') for base wiring, else the type
\* an adjustWiringAfter that files the sentinel under the adjuster's own
\* scope, so that only that type and its descendants hold it
AdjustWiringAfterScopeOnly(w, k, adjuster) ==
    LET scope == IF k = ROOT THEN ROOT ELSE CKey(k)
    IN  [w EXCEPT !.wa = _addAdjuster(@, k, adjuster),
                  !.ca = _addAdjuster(@, scope, adjuster),
                  !.sup = _ensureSuppliedWiringKeyExists(@, adjuster)]

_adjustWiringAfter(w, k, adjuster) ==
    LET ca1 == IF k # ROOT THEN _ensureContainerTypeExists(w.ca, CKey(k)) ELSE w.ca
    IN  [w EXCEPT !.wa = _addAdjuster(@, k, adjuster),
                  !.ca = _addAdjuster(ca1, ROOT, adjuster),
                  !.sup = _ensureSuppliedWiringKeyExists(@, adjuster)]

_adjustBaseWiring(w, adjuster) == _adjustWiringAfter(w, ROOT, adjuster)

\* an addWiring that merges the adjuster lists and not the resolution map
AddWiringWithoutKeys(w, other) ==
    [w EXCEPT !.ca = _addAdjusters(@, other.ca),
              !.wa = _addAdjusters(@, other.wa)]

_addWiring(w, other) ==
    [w EXCEPT !.ca = _addAdjusters(@, other.ca),
              !.wa = _addAdjusters(@, other.wa),
              !.sup = _addSuppliedWiring(@, other.sup)]

\* new wiring.constructor(wiring): the content of the new object
\* a copy constructed with the Wiring class, whatever the class of w
PlainCopy(w) == [ca |-> w.ca, wa |-> w.wa, sup |-> w.sup, cls |-> "Wiring"]

WiringCopy(w) == [ca |-> w.ca, wa |-> w.wa, sup |-> w.sup, cls |-> w.cls]

\* the reference `new this.constructor(this)` evaluates to, in heap h
NewRef(h, r) == Len(h) + 1

\* no copy is taken: the wiring handed in is the one used
SameWiring(h, r) == r

\* the copies taken by the WiringBuilder constructor, by build(), by
\* createContainer, by createContainerFactory and by a returned factory
ImportClone(h, r) == NewRef(h, r)
BuildClone(h, r) == NewRef(h, r)
CreateContainerClone(h, r) == NewRef(h, r)
CreateContainerFactoryClone(h, r) == NewRef(h, r)
FactoryCallClone(h, r) == NewRef(h, r)

---------------------------------------------------------------------------
(* Wiring: flattening the adjuster list of a container type *)

\* Deeper than the number of functions, a chain of supplied wirings repeats a
\* wiring adjuster: the recursion of the code never ends and the engine throws
\* a RangeError.
MaxFlattenDepth == Cardinality(Fns)

\* a flattening that puts what a wiring adjuster supplied after the rest of
\* the list instead of in its place
RECURSIVE FlattenSuppliedLast(_, _, _, _, _)
FlattenSuppliedLast(h, sup, list, k, fuel) ==
    IF list = <<>> THEN <<>>
    ELSE LET adjuster == Head(list)
             suppliedWiring == sup[adjuster]
             rest == FlattenSuppliedLast(h, sup, Tail(list), k, fuel)
         IN  IF suppliedWiring = UNDEF THEN <<adjuster>> \o rest
             ELSE IF suppliedWiring = NULL THEN rest
             ELSE IF ~Has(h[suppliedWiring].ca, k) THEN rest
             ELSE IF fuel = 0 THEN <<OVERFLOW>>
             ELSE rest \o FlattenSuppliedLast(h, sup, Get(h[suppliedWiring].ca, k),
                                              k, fuel - 1)

\* _getFlattenedContainerAdjusters over the list `list` of key k; sup is
\* this._wiringSuppliedByWiringAdjusters, also in the recursive calls
RECURSIVE FlattenList(_, _, _, _, _)
FlattenList(h, sup, list, k, fuel) ==
    IF list = <<>> THEN <<>>
    ELSE LET adjuster == Head(list)
             suppliedWiring == sup[adjuster]
             here ==
                 IF suppliedWiring = UNDEF THEN <<adjuster>>
                 ELSE IF suppliedWiring = NULL THEN <<>>
                 ELSE IF ~Has(h[suppliedWiring].ca, k) THEN <<>>
                 ELSE IF fuel = 0 THEN <<OVERFLOW>>
                 ELSE FlattenList(h, sup, Get(h[suppliedWiring].ca, k), k, fuel - 1)
         IN  here \o FlattenList(h, sup, Tail(list), k, fuel)

_getFlattenedContainerAdjusters(h, w, k) ==
    FlattenList(h, h[w].sup, Get(h[w].ca, k), k, MaxFlattenDepth)

Overflows(list) == \E i \in 1..Len(list) : list[i] = OVERFLOW

---------------------------------------------------------------------------
(* Wiring: gathering the wiring supplied by wiring adjusters *)

\* a consume loop that calls whatever it shifts off the list, also an
\* adjuster that has already supplied wiring
ShiftAndCallAgain(w, k) ==
    IF ~Has(w.wa, k) \/ Get(w.wa, k) = <<>> THEN [w |-> w, f |-> NOFN]
    ELSE [w |-> [w EXCEPT !.wa = SetList(@, k, Tail(Get(w.wa, k)))],
          f |-> Head(Get(w.wa, k))]

\* the head of the consume loop: shift adjusters off the list of key k until
\* one is found that has supplied no wiring yet (f), or the list is empty
RECURSIVE GatherShift(_, _)
GatherShift(w, k) ==
    IF ~Has(w.wa, k) THEN [w |-> w, f |-> NOFN]
    ELSE IF Get(w.wa, k) = <<>> THEN [w |-> w, f |-> NOFN]
    ELSE LET wiringAdjuster == Head(Get(w.wa, k))
             w1 == [w EXCEPT !.wa = SetList(@, k, Tail(Get(w.wa, k)))]
         IN  IF w.sup[wiringAdjuster] >= 1 THEN GatherShift(w1, k)
             ELSE [w |-> w1, f |-> wiringAdjuster]

\* a consume loop that calls the wiring adjuster without recording its
\* supplied wiring first
GatherEnterUnrecorded(h, w, k) ==
    LET sh == GatherShift(h[w], k)
        s == Len(h) + 1
    IN  IF sh.f = NOFN
        THEN [h |-> [h EXCEPT ![w] = sh.w], f |-> NOFN, s |-> 0]
        ELSE [h |-> Append([h EXCEPT ![w] = sh.w], EmptyWiring("Wiring")),
              f |-> sh.f, s |-> s]

\* _gatherWiringSuppliedByWiringAdjusters from the loop head up to the call of
\* the next wiring adjuster: f is that adjuster (NOFN: the loop ended) and
\* s the fresh supplied wiring recorded for it
GatherEnter(h, w, k) ==
    LET sh == GatherShift(h[w], k)
        s == Len(h) + 1
    IN  IF sh.f = NOFN
        THEN [h |-> [h EXCEPT ![w] = sh.w], f |-> NOFN, s |-> 0]
        ELSE [h |-> Append([h EXCEPT ![w] = [sh.w EXCEPT !.sup[sh.f] = s]],
                           EmptyWiring("Wiring")),
              f |-> sh.f, s |-> s]

\* an addWiring callback that takes the container adjusters of the added
\* wiring and drops its wiring adjusters
AddWiringCallbackContainerOnly(h, w, s, toAdd) ==
    LET h1 == [h EXCEPT ![s].ca = _addAdjusters(@, h[toAdd].ca)]
    IN  [h1 EXCEPT ![w].sup = _addSuppliedWiring(@, h1[toAdd].sup)]

\* the addWiring callback handed to the wiring adjuster of wiring w whose
\* supplied wiring is s, called with the wiring toAdd
AddWiringCallback(h, w, s, toAdd) ==
    LET h1 == [h EXCEPT ![s].ca = _addAdjusters(@, h[toAdd].ca)]
        h2 == [h1 EXCEPT ![w].wa = _addAdjusters(@, h1[toAdd].wa)]
    IN  [h2 EXCEPT ![w].sup = _addSuppliedWiring(@, h2[toAdd].sup)]

RECURSIVE EnsureAll(_, _, _)
EnsureAll(coll, source, i) ==
    IF i > Len(source) THEN coll
    ELSE EnsureAll(_ensureContainerTypeExists(coll, source[i].k), source, i + 1)

\* a gather that leaves the container types of the two wirings as they are
SynchroniseNothing(h, w, s) == h

\* "Synchronise container types between the supplied wiring and this wiring"
SynchroniseContainerTypes(h, w, s) ==
    LET h1 == [h EXCEPT ![w].ca = EnsureAll(@, h[s].ca, 1)]
    IN  [h1 EXCEPT ![s].ca = EnsureAll(@, h1[w].ca, 1)]

---------------------------------------------------------------------------
(* The wiring modules and adjuster functions of the scenarios *)

OpAC(t, fn) == [op |-> "ac", t |-> t, fn |-> fn, lib |-> 0]
OpBW(fn) == [op |-> "bw", t |-> ROOT, fn |-> fn, lib |-> 0]
OpWA(t, fn) == [op |-> "wa", t |-> t, fn |-> fn, lib |-> 0]
OpAW(lib) == [op |-> "aw", t |-> ROOT, fn |-> NOFN, lib |-> lib]
OpImport(lib) == [op |-> "import", t |-> ROOT, fn |-> NOFN, lib |-> lib]

\* the builder calls that made each library wiring
LibRegs ==
    << <<OpAC(TA, "x")>>,
       <<OpAC(TA, "y")>>,
       <<OpAC(TAB, "z")>>,
       <<OpBW("f")>>,
       <<OpBW("r")>>,
       <<OpBW("n")>> >>

\* Wiring.isWiring(v): v is a reference to a Wiring; Faulty is the string
\* 'faulty', UNDEF is undefined and NULL is null (for which the `in` operator
\* of isWiring throws a TypeError itself)
Faulty == -2
IsWiring(h, v) == v \in 1..Len(h)
Truthy(v) == v \notin {UNDEF, NULL}

\* the heap reference of new StructuredWiringBuilder().build(), in SpecStruct
StructLib == Len(LibRegs) + 1

\* the heap references, in SpecTerm, of two wirings that register q and p as
\* base wiring adjusters: p supplies the first and q the second
MutualLibs == <<Len(LibRegs) + 1, Len(LibRegs) + 2>>
MutualLibRegs == << <<OpBW("q")>>, <<OpBW("p")>> >>

\* the wiring adjuster calls addWiring inside a try block and goes on when it
\* throws
Catches(f) == f = "w"

\* what each wiring adjuster function passes to its addWiring callback
Supplies(f) ==
    CASE f = "f" -> <<1>>
      [] f = "g" -> <<2>>
      [] f = "h" -> <<3>>
      [] f = "r" -> <<4, 5>>
      [] f = "n" -> <<4>>
      [] f = "m" -> <<6>>
      [] f = "v" -> <<1, Faulty>>
      [] f = "w" -> <<Faulty, 2>>
      [] f = "s" -> <<StructLib>>
      [] f = "p" -> <<MutualLibs[1]>>
      [] f = "q" -> <<MutualLibs[2]>>
      [] OTHER -> <<>>

ApplyOp(h, w, op) ==
    CASE op.op = "ac" -> _adjustContainer(w, op.t, op.fn)
      [] op.op = "bw" -> _adjustBaseWiring(w, op.fn)
      [] op.op = "wa" -> _adjustWiringAfter(w, op.t, op.fn)
      [] op.op = "aw" -> _addWiring(w, h[op.lib])

RECURSIVE RunProgram(_, _, _)
RunProgram(h, w, prog) ==
    IF prog = <<>> THEN w
    ELSE RunProgram(h, ApplyOp(h, w, Head(prog)), Tail(prog))

\* new WiringBuilder()...build() for each library wiring
LibHeap == [i \in 1..Len(LibRegs) |->
               WiringCopy(RunProgram(<<>>, EmptyWiring("Wiring"), LibRegs[i]))]

Libs == 1..Len(LibRegs)

---------------------------------------------------------------------------
(* Creation calls *)

NoCall ==
    [kind |-> "container", src |-> 0, via |-> "direct", parent |-> 0,
     w |-> 0, t |-> ROOT, args |-> <<>>, ph |-> "base", pc |-> "new",
     cur |-> NOFN, curS |-> 0, todo |-> <<>>, flat |-> <<>>, applied |-> {},
     inflight |-> {}, log |-> <<>>, err |-> ""]

WAEvent(f, ctr) == [k |-> "wa", fn |-> f, args |-> <<>>, ctr |-> ctr]
CAEvent(f, args, ctr) == [k |-> "ca", fn |-> f, args |-> args, ctr |-> ctr]

\* the adjuster the call last invoked
LastInvoked(c) == c.log[Len(c.log)].fn

\* the promise of the adjuster the call awaits has settled
Settle(c) == [c EXCEPT !.inflight = @ \ {LastInvoked(c)}]

\* a gather that returns at once and leaves the wiring adjusters of key k
\* pending
GatherNothing(h, c, id, ph, k, otherwise) ==
    [h |-> h, c |-> [c EXCEPT !.ph = ph, !.pc = otherwise, !.cur = NOFN, !.curS = 0]]

\* run the consume loop of key k for call c (number id) up to the next call of
\* a wiring adjuster; `otherwise` is where the call goes when the loop ends
EnterGather(h, c, id, ph, k, otherwise) ==
    LET g == GatherEnter(h, c.w, k)
    IN  IF g.f = NOFN
        THEN [h |-> g.h, c |-> [c EXCEPT !.ph = ph, !.pc = otherwise,
                                         !.cur = NOFN, !.curS = 0]]
        ELSE [h |-> g.h,
              c |-> [c EXCEPT !.ph = ph, !.pc = "wa", !.cur = g.f, !.curS = g.s,
                              !.todo = Supplies(g.f),
                              !.inflight = @ \cup {g.f},
                              !.log = Append(@, WAEvent(g.f,
                                          IF ph = "after" THEN id ELSE 0))]]

\* a list without the repetitions of its elements
RECURSIVE DedupFlat(_)
DedupFlat(list) ==
    IF list = <<>> THEN <<>>
    ELSE LET init == DedupFlat(SubSeq(list, 1, Len(list) - 1))
         IN  IF \E n \in 1..Len(init) : init[n] = list[Len(list)] THEN init
             ELSE Append(init, list[Len(list)])

\* an apply loop that keeps no record of the adjusters it has applied
NeverApplied(applied, adjuster) == FALSE

\* appliedContainerAdjusters.has(containerAdjuster)
AlreadyApplied(applied, adjuster) == adjuster \in applied

\* an apply loop that skips nothing
SkipNothing(flat, applied) == flat

RECURSIVE SkipApplied(_, _)
SkipApplied(flat, applied) ==
    IF flat = <<>> THEN <<>>
    ELSE IF AlreadyApplied(applied, Head(flat)) THEN SkipApplied(Tail(flat), applied)
    ELSE flat

\* an apply loop that calls every container adjuster without awaiting the
\* one before it
ApplyAllAtOnce(h, c, id) ==
    LET rest == DedupFlat(c.flat)
    IN  IF rest = <<>>
        THEN EnterGather(h, [c EXCEPT !.flat = <<>>], id, "after", c.t, "done")
        ELSE [h |-> h,
              c |-> [c EXCEPT !.pc = "ca", !.flat = <<>>,
                              !.applied = @ \cup {rest[n] : n \in 1..Len(rest)},
                              !.inflight = @ \cup {rest[n] : n \in 1..Len(rest)},
                              !.log = @ \o [n \in 1..Len(rest) |->
                                               CAEvent(rest[n], c.args, id)]]]

\* the loop over the flattened container adjusters, up to the call of the next
\* one; after the last one, _gatherWiringSuppliedByWiringAdjusters(containerType)
ContinueApply(h, c, id) ==
    LET rest == SkipApplied(c.flat, c.applied)
    IN  IF rest = <<>>
        THEN EnterGather(h, [c EXCEPT !.flat = <<>>], id, "after", c.t, "done")
        ELSE [h |-> h,
              c |-> [c EXCEPT !.pc = "ca", !.flat = Tail(rest),
                              !.applied = @ \cup {Head(rest)},
                              !.inflight = @ \cup {Head(rest)},
                              !.log = Append(@, CAEvent(Head(rest), c.args, id))]]

\* a creation that hands out a factory without looking the type up, leaving
\* the check to the calls of the factory
FactoryUnchecked(h, c, id) ==
    IF c.kind = "factory"
    THEN [h |-> h, c |-> [c EXCEPT !.pc = "factory"]]
    ELSE IF ~Has(h[c.w].ca, CKey(c.t))
    THEN [h |-> h, c |-> [c EXCEPT !.pc = "rejected", !.err = "RangeError: unknown"]]
    ELSE ContinueApply(h, [c EXCEPT !.flat =
                               _getFlattenedContainerAdjusters(h, c.w, CKey(c.t))], id)

\* _createContainer / _createContainerFactory after the base wiring was gathered
AfterBase(h, c, id) ==
    IF ~Has(h[c.w].ca, CKey(c.t))
    THEN [h |-> h, c |-> [c EXCEPT !.pc = "rejected", !.err = "RangeError: unknown"]]
    ELSE IF c.kind = "factory"
    THEN [h |-> h, c |-> [c EXCEPT !.pc = "factory"]]
    ELSE LET flat == _getFlattenedContainerAdjusters(h, c.w, CKey(c.t))
         IN  IF Overflows(flat)
             THEN [h |-> h, c |-> [c EXCEPT !.pc = "rejected", !.err = OVERFLOW]]
             ELSE ContinueApply(h, [c EXCEPT !.flat = flat], id)

---------------------------------------------------------------------------
(* The operations *)

Init ==
    /\ heap = LibHeap
    /\ builder = 0
    /\ nops = 0
    /\ regs = <<>>
    /\ built = <<>>
    /\ builtAt = <<>>
    /\ calls = <<>>

Settled(c) == c.pc \in {"done", "rejected", "factory"}
AllSettled == \A i \in 1..Len(calls) : Settled(calls[i])

\* new WiringBuilder(wiring); src = 0: no wiring is passed
NewBuilder(src) ==
    /\ builder = 0
    /\ heap' = Append(heap, IF src = 0 THEN EmptyWiring("Wiring")
                            ELSE WiringCopy(heap[src]))
    /\ builder' = IF src = 0 THEN NewRef(heap, src) ELSE ImportClone(heap, src)
    /\ regs' = IF src = 0 THEN regs ELSE Append(regs, OpImport(src))
    /\ UNCHANGED <<nops, built, builtAt, calls>>

\* builder.adjustContainer / adjustBaseWiring / adjustWiringAfter / addWiring
BuilderCall(op, max) ==
    /\ builder # 0
    /\ calls = <<>>
    /\ nops < max
    /\ heap' = [heap EXCEPT ![builder] = ApplyOp(heap, @, op)]
    /\ regs' = Append(regs, op)
    /\ nops' = nops + 1
    /\ UNCHANGED <<builder, built, builtAt, calls>>

\* Wiring.isValidContainerType, on the components of the string; NotAString
\* stands for any value that is not a string
NotAString == <<>>
IsValidContainerType(t) ==
    /\ t # NotAString
    /\ t # <<"">>
    /\ Head(t) # ""
    /\ t[Len(t)] # ""

\* typeof adjuster === 'function'; NotAFunction is the string 'Child'
NotAFunction == "Child"
IsFunction(fn) == fn \in Fns

\* the argument checks at the head of adjustBaseWiring, adjustContainer,
\* adjustWiringAfter and addWiring: TRUE when the call throws a TypeError
Throws(h, op) ==
    CASE op.op \in {"ac", "wa"} -> ~IsValidContainerType(op.t) \/ ~IsFunction(op.fn)
      [] op.op = "bw" -> ~IsFunction(op.fn)
      [] op.op = "aw" -> ~IsWiring(h, op.lib)

\* the builder calls as recorded by the operations that check their arguments
Logged(op, threw) ==
    [op |-> op.op, t |-> op.t, fn |-> op.fn, lib |-> op.lib, threw |-> threw]

\* new WiringBuilder(v) for any value v, with the check of the constructor
NewBuilderWith(v) ==
    /\ builder = 0
    /\ LET threw == Truthy(v) /\ ~IsWiring(heap, v)
       IN  /\ heap' = IF threw THEN heap
                      ELSE Append(heap, IF Truthy(v) THEN WiringCopy(heap[v])
                                        ELSE EmptyWiring("Wiring"))
           /\ builder' = IF threw THEN 0
                         ELSE IF Truthy(v) THEN ImportClone(heap, v)
                         ELSE NewRef(heap, v)
           /\ regs' = IF v = UNDEF THEN regs
                      ELSE Append(regs, Logged(OpImport(v), threw))
    /\ UNCHANGED <<nops, built, builtAt, calls>>

\* a builder call with any arguments: it throws before it touches the wiring,
\* or registers as BuilderCall does
BuilderCallWith(op, max) ==
    /\ builder # 0
    /\ calls = <<>>
    /\ nops < max
    /\ heap' = IF Throws(heap, op) THEN heap
               ELSE [heap EXCEPT ![builder] = ApplyOp(heap, @, op)]
    /\ regs' = Append(regs, Logged(op, Throws(heap, op)))
    /\ nops' = nops + 1
    /\ UNCHANGED <<builder, built, builtAt, calls>>

\* builder.build()
Build(max) ==
    /\ builder # 0
    /\ calls = <<>>
    /\ Len(built) < max
    /\ heap' = Append(heap, WiringCopy(heap[builder]))
    /\ built' = Append(built, BuildClone(heap, builder))
    /\ builtAt' = Append(builtAt, Len(regs))
    /\ UNCHANGED <<builder, nops, regs, calls>>

\* the clone of the wiring src and the start of _createContainer or
\* _createContainerFactory on it, up to the first await that yields
CloneAndStart(kind, src, via, parent, t, args) ==
    /\ LET id == Len(calls) + 1
           wiring == IF kind = "factory" THEN CreateContainerFactoryClone(heap, src)
                     ELSE IF via = "factory" THEN FactoryCallClone(heap, src)
                     ELSE CreateContainerClone(heap, src)
           c == [NoCall EXCEPT !.kind = kind, !.src = src, !.via = via,
                               !.parent = parent, !.w = wiring,
                               !.t = t, !.args = args]
           r == EnterGather(Append(heap, WiringCopy(heap[src])), c, id,
                            "base", ROOT, "gathered")
       IN  /\ heap' = r.h
           /\ calls' = Append(calls, r.c)
    /\ UNCHANGED <<builder, nops, regs, built, builtAt>>

\* a createContainer / createContainerFactory that does not look at the type
\* it is given before it clones the wiring
StartWithoutTypeCheck(kind, src, via, parent, t, args) ==
    CloneAndStart(kind, src, via, parent, t, args)

\* wiring.createContainer(t, ...args) or createContainerFactory(t, ...args) on
\* the wiring src: the type is checked first; a call of a returned factory
\* (via = "factory") starts at the clone
StartCall(kind, src, via, parent, t, args) ==
    IF via # "factory" /\ ~IsValidContainerType(t)
    THEN /\ calls' = Append(calls,
                [NoCall EXCEPT !.kind = kind, !.src = src, !.via = via,
                               !.parent = parent, !.t = t, !.args = args,
                               !.pc = "rejected",
                               !.err = "TypeError: invalid container type"])
         /\ UNCHANGED <<heap, builder, nops, regs, built, builtAt>>
    ELSE CloneAndStart(kind, src, via, parent, t, args)

\* an independent creation: on a wiring returned by build()
CreateContainer(t, args) ==
    \E b \in 1..Len(built) : StartCall("container", built[b], "direct", 0, t, args)

\* an independent creation on a wiring that was imported into the builder or
\* added to it
CreateContainerOnImported(t, args) ==
    \E j \in 1..Len(regs) :
        /\ regs[j].op \in {"import", "aw"}
        /\ StartCall("container", regs[j].lib, "direct", 0, t, args)

CreateContainerFactory(t, args) ==
    \E b \in 1..Len(built) : StartCall("factory", built[b], "direct", 0, t, args)

\* an ensuing creation that works on the 'wiring' bean itself, not on a clone
CreateEnsuingContainerShared(t, args) ==
    \E p \in 1..Len(calls) :
        /\ calls[p].kind = "container"
        /\ calls[p].pc = "done"
        /\ LET id == Len(calls) + 1
               c == [NoCall EXCEPT !.src = calls[p].w, !.via = "ensuing",
                                   !.parent = p, !.w = calls[p].w,
                                   !.t = t, !.args = args]
               r == EnterGather(heap, c, id, "base", ROOT, "gathered")
           IN  /\ heap' = r.h
               /\ calls' = Append(calls, r.c)
        /\ UNCHANGED <<builder, nops, regs, built, builtAt>>

\* an ensuing creation: through the 'wiring' bean of a created container
CreateEnsuingContainer(t, args) ==
    \E p \in 1..Len(calls) :
        /\ calls[p].kind = "container"
        /\ calls[p].pc = "done"
        /\ StartCall("container", calls[p].w, "ensuing", p, t, args)

\* a factory that clones the wiring its createContainerFactory call was made
\* on, not the working wiring of that call
InvokeFactoryOnOriginating(args) ==
    \E p \in 1..Len(calls) :
        /\ calls[p].pc = "factory"
        /\ StartCall("container", calls[p].src, "factory", p, calls[p].t,
                     calls[p].args \o args)

\* a factory that puts the arguments of its caller first
InvokeFactoryCallerFirst(args) ==
    \E p \in 1..Len(calls) :
        /\ calls[p].pc = "factory"
        /\ StartCall("container", calls[p].w, "factory", p, calls[p].t,
                     args \o calls[p].args)

\* a call of the factory that call p returned
InvokeFactory(args) ==
    \E p \in 1..Len(calls) :
        /\ calls[p].pc = "factory"
        /\ StartCall("container", calls[p].w, "factory", p, calls[p].t,
                     calls[p].args \o args)

InvalidWiringError == "TypeError: invalid wiring passed to wiring adjuster callback"

\* an addWiring callback that ignores a value that is not a Wiring
AddWiringUnchecked(i) ==
    /\ calls[i].pc = "wa"
    /\ calls[i].todo # <<>>
    /\ heap' = IF IsWiring(heap, Head(calls[i].todo))
               THEN AddWiringCallback(heap, calls[i].w, calls[i].curS,
                                      Head(calls[i].todo))
               ELSE heap
    /\ calls' = [calls EXCEPT ![i].todo = Tail(@)]
    /\ UNCHANGED <<builder, nops, regs, built, builtAt>>

\* the wiring adjuster in flight calls addWiring(wiringToAdd): the callback
\* throws when wiringToAdd is not a Wiring; an adjuster that does not catch
\* the error rejects its promise with it, and the awaiting call stops there
AddWiringStep(i) ==
    /\ calls[i].pc = "wa"
    /\ calls[i].todo # <<>>
    /\ IF IsWiring(heap, Head(calls[i].todo))
       THEN /\ heap' = AddWiringCallback(heap, calls[i].w, calls[i].curS,
                                         Head(calls[i].todo))
            /\ calls' = [calls EXCEPT ![i].todo = Tail(@)]
       ELSE /\ heap' = heap
            /\ calls' = IF Catches(calls[i].cur)
                        THEN [calls EXCEPT ![i].todo = Tail(@)]
                        ELSE [calls EXCEPT ![i] =
                                 [Settle(@) EXCEPT !.pc = "rejected",
                                                   !.err = InvalidWiringError]]
    /\ UNCHANGED <<builder, nops, regs, built, builtAt>>

\* what call c (number i) does when the promise it awaits fulfils
Resume(h, c, i) ==
    CASE c.pc = "wa" ->
            LET h1 == SynchroniseContainerTypes(h, c.w, c.curS)
            IN  IF c.ph = "base"
                THEN EnterGather(h1, Settle(c), i, "base", ROOT, "gathered")
                ELSE EnterGather(h1, Settle(c), i, "after", c.t, "done")
      [] c.pc = "gathered" -> AfterBase(h, c, i)
      [] c.pc = "ca" -> ContinueApply(h, Settle(c), i)

\* the promise of the wiring adjuster in flight fulfils: the loop goes on
WiringAdjusterReturns(i) ==
    /\ calls[i].pc = "wa"
    /\ calls[i].todo = <<>>
    /\ heap' = Resume(heap, calls[i], i).h
    /\ calls' = [calls EXCEPT ![i] = Resume(heap, calls[i], i).c]
    /\ UNCHANGED <<builder, nops, regs, built, builtAt>>

\* the base wiring is gathered: the type is checked, the container constructed
\* and the first container adjuster called
BaseGathered(i) ==
    /\ calls[i].pc = "gathered"
    /\ heap' = Resume(heap, calls[i], i).h
    /\ calls' = [calls EXCEPT ![i] = Resume(heap, calls[i], i).c]
    /\ UNCHANGED <<builder, nops, regs, built, builtAt>>

\* the promise of the container adjuster in flight fulfils
ContainerAdjusterReturns(i) ==
    /\ calls[i].pc = "ca"
    /\ heap' = Resume(heap, calls[i], i).h
    /\ calls' = [calls EXCEPT ![i] = Resume(heap, calls[i], i).c]
    /\ UNCHANGED <<builder, nops, regs, built, builtAt>>

\* the error an adjuster throws, or rejects its promise with, is named after
\* the adjuster
ErrorOf(fn) == fn

\* the call stops where the error reaches it: `await adjuster(...)` throws out
\* of _createContainer or _createContainerFactory, whose promise rejects
Reject(c) == [Settle(c) EXCEPT !.pc = "rejected", !.err = ErrorOf(LastInvoked(c))]

\* a creation that catches the error of an adjuster and goes on with the
\* adjusters that follow it
SwallowAndGoOn(i) ==
    /\ calls[i].pc \in {"wa", "ca"}
    /\ heap' = Resume(heap, [calls[i] EXCEPT !.todo = <<>>], i).h
    /\ calls' = [calls EXCEPT ![i] =
                    [Resume(heap, [calls[i] EXCEPT !.todo = <<>>], i).c
                        EXCEPT !.err = ErrorOf(LastInvoked(calls[i]))]]
    /\ UNCHANGED <<builder, nops, regs, built, builtAt>>

\* the adjuster in flight (a wiring adjuster, before or after any of its
\* addWiring calls, or a container adjuster) throws or its promise rejects
AdjusterThrows(i) ==
    /\ calls[i].pc \in {"wa", "ca"}
    /\ calls' = [calls EXCEPT ![i] = Reject(@)]
    /\ UNCHANGED <<heap, builder, nops, regs, built, builtAt>>

---------------------------------------------------------------------------
(* Spec: one build, then creations of every kind, one at a time *)

Types == {TA, TAB}

BuilderOps == {OpAC(TA, "a"), OpBW("f"), OpWA(TA, "h")}

Next ==
    \/ NewBuilder(0)
    \/ \E op \in BuilderOps : built = <<>> /\ BuilderCall(op, MaxOps)
    \/ built = <<>> /\ Build(1)
    \/ \E t \in Types :
          Len(calls) < MaxCalls /\ AllSettled /\ CreateContainer(t, <<>>)
    \/ \E t \in Types :
          Len(calls) < MaxCalls /\ AllSettled /\ CreateContainerFactory(t, <<>>)
    \/ \E t \in Types :
          Len(calls) < MaxCalls /\ AllSettled /\ CreateEnsuingContainer(t, <<>>)
    \/ Len(calls) < MaxCalls /\ AllSettled /\ InvokeFactory(<<>>)
    \/ \E i \in 1..Len(calls) : AddWiringStep(i)
    \/ \E i \in 1..Len(calls) : WiringAdjusterReturns(i)
    \/ \E i \in 1..Len(calls) : BaseGathered(i)
    \/ \E i \in 1..Len(calls) : ContainerAdjusterReturns(i)

Spec == Init /\ [][Next]_vars

---------------------------------------------------------------------------
(* SpecBuild: builder calls and build() calls in any order, then creations *)
(* from the wirings built                                                  *)

BuildOps == {OpAC(TA, "a"), OpAC(TA, "x"), OpBW("f"), OpWA(TA, "g")}

NextBuild ==
    \/ NewBuilder(0)
    \/ \E op \in BuildOps : BuilderCall(op, MaxOpsBuild)
    \/ Build(MaxBuilds)
    \/ Len(calls) < MaxCallsBuild /\ AllSettled /\ CreateContainer(TA, <<>>)
    \/ \E i \in 1..Len(calls) : AddWiringStep(i)
    \/ \E i \in 1..Len(calls) : WiringAdjusterReturns(i)
    \/ \E i \in 1..Len(calls) : BaseGathered(i)
    \/ \E i \in 1..Len(calls) : ContainerAdjusterReturns(i)

SpecBuild == Init /\ [][NextBuild]_vars

---------------------------------------------------------------------------
(* SpecImport: wirings imported by the constructor, added with addWiring    *)
(* and supplied by a wiring adjuster; creations from the built wiring and   *)
(* from the imported wirings themselves                                     *)

ImportOps == {OpAW(1), OpAW(3), OpBW("f"), OpAC(TA, "a")}

NextImport ==
    \/ \E src \in {0, 1} : NewBuilder(src)
    \/ \E op \in ImportOps : built = <<>> /\ BuilderCall(op, MaxOpsImport)
    \/ built = <<>> /\ Build(1)
    \/ \E t \in Types :
          Len(calls) < MaxCallsImport /\ AllSettled /\ CreateContainer(t, <<>>)
    \/ \E t \in Types :
          Len(calls) < MaxCallsImport /\ AllSettled
              /\ CreateContainerOnImported(t, <<>>)
    \/ \E i \in 1..Len(calls) : AddWiringStep(i)
    \/ \E i \in 1..Len(calls) : WiringAdjusterReturns(i)
    \/ \E i \in 1..Len(calls) : BaseGathered(i)
    \/ \E i \in 1..Len(calls) : ContainerAdjusterReturns(i)

SpecImport == Init /\ [][NextImport]_vars

---------------------------------------------------------------------------
(* SpecAdjust: adjustContainer calls over a hierarchy, one build, one creation *)

AdjustTypes == {TA, TAB, TABC}
AdjustOps == {OpAC(t, fn) : t \in AdjustTypes, fn \in {"a", "b"}}

NextAdjust ==
    \/ NewBuilder(0)
    \/ \E op \in AdjustOps : built = <<>> /\ BuilderCall(op, MaxOpsAdjust)
    \/ built = <<>> /\ Build(1)
    \/ \E t \in AdjustTypes : calls = <<>> /\ CreateContainer(t, <<>>)
    \/ \E i \in 1..Len(calls) : BaseGathered(i)
    \/ \E i \in 1..Len(calls) : ContainerAdjusterReturns(i)

SpecAdjust == Init /\ [][NextAdjust]_vars

---------------------------------------------------------------------------
(* SpecOrder: adjustContainer, adjustBaseWiring, addWiring and import mixed, *)
(* one build, one creation                                                  *)

OrderOps ==
    {OpAC(t, fn) : t \in Types, fn \in {"a", "x"}}
    \cup {OpBW(f) : f \in {"f", "g", "h"}}
    \cup {OpAW(l) : l \in {1, 2, 4}}

NextOrder ==
    \/ \E src \in {0, 1} : NewBuilder(src)
    \/ \E op \in OrderOps : built = <<>> /\ BuilderCall(op, MaxOpsOrder)
    \/ built = <<>> /\ Build(1)
    \/ \E t \in Types : calls = <<>> /\ CreateContainer(t, <<>>)
    \/ \E i \in 1..Len(calls) : AddWiringStep(i)
    \/ \E i \in 1..Len(calls) : WiringAdjusterReturns(i)
    \/ \E i \in 1..Len(calls) : BaseGathered(i)
    \/ \E i \in 1..Len(calls) : ContainerAdjusterReturns(i)

SpecOrder == Init /\ [][NextOrder]_vars


---------------------------------------------------------------------------
(* SpecConc: one build, then two createContainer calls, or two calls of one *)
(* factory, whose steps interleave freely                                   *)

ConcOps ==
    {OpAC(TA, "a"), OpAC(TAB, "a"), OpBW("f"), OpBW("h"),
     OpWA(TA, "g"), OpWA(TAB, "f")}

NextConc ==
    \/ NewBuilder(0)
    \/ \E op \in ConcOps : built = <<>> /\ BuilderCall(op, MaxOpsConc)
    \/ built = <<>> /\ Build(1)
    \/ \E t \in Types :
          /\ Len(calls) < 2
          /\ \A i \in 1..Len(calls) : calls[i].kind = "container"
          /\ CreateContainer(t, <<Len(calls) + 1>>)
    \/ \E t \in Types : calls = <<>> /\ CreateContainerFactory(t, <<>>)
    \/ Len(calls) < 3 /\ InvokeFactory(<<Len(calls)>>)
    \/ \E i \in 1..Len(calls) : AddWiringStep(i)
    \/ \E i \in 1..Len(calls) : WiringAdjusterReturns(i)
    \/ \E i \in 1..Len(calls) : BaseGathered(i)
    \/ \E i \in 1..Len(calls) : ContainerAdjusterReturns(i)

SpecConc == Init /\ [][NextConc]_vars

---------------------------------------------------------------------------
(* SpecAfter: after-adjusters; one build, then independent and ensuing      *)
(* creations, one at a time                                                 *)

AfterTypes == {TA, TP}

AfterOps ==
    {OpAC(TA, "a"), OpWA(TA, "f"), OpWA(TP, "f"), OpWA(TP, "g"), OpBW("f")}

NextAfter ==
    \/ NewBuilder(0)
    \/ \E op \in AfterOps : built = <<>> /\ BuilderCall(op, MaxOpsAfter)
    \/ built = <<>> /\ Build(1)
    \/ \E t \in AfterTypes :
          Len(calls) < MaxCallsAfter /\ AllSettled /\ CreateContainer(t, <<>>)
    \/ \E t \in AfterTypes :
          Len(calls) < MaxCallsAfter /\ AllSettled /\ CreateEnsuingContainer(t, <<>>)
    \/ \E i \in 1..Len(calls) : AddWiringStep(i)
    \/ \E i \in 1..Len(calls) : WiringAdjusterReturns(i)
    \/ \E i \in 1..Len(calls) : BaseGathered(i)
    \/ \E i \in 1..Len(calls) : ContainerAdjusterReturns(i)

SpecAfter == Init /\ [][NextAfter]_vars

---------------------------------------------------------------------------
(* SpecFactory: after-adjusters; one build, then factories, their calls and *)
(* independent creations, one at a time                                     *)

NextFactory ==
    \/ NewBuilder(0)
    \/ \E op \in AfterOps : built = <<>> /\ BuilderCall(op, MaxOpsFactory)
    \/ built = <<>> /\ Build(1)
    \/ \E t \in AfterTypes :
          Len(calls) < MaxCallsFactory /\ AllSettled /\ CreateContainer(t, <<>>)
    \/ \E t \in AfterTypes :
          Len(calls) < MaxCallsFactory /\ AllSettled
              /\ CreateContainerFactory(t, <<>>)
    \/ Len(calls) < MaxCallsFactory /\ AllSettled /\ InvokeFactory(<<>>)
    \/ \E i \in 1..Len(calls) : AddWiringStep(i)
    \/ \E i \in 1..Len(calls) : WiringAdjusterReturns(i)
    \/ \E i \in 1..Len(calls) : BaseGathered(i)
    \/ \E i \in 1..Len(calls) : ContainerAdjusterReturns(i)

SpecFactory == Init /\ [][NextFactory]_vars

---------------------------------------------------------------------------
(* SpecOnce: wiring adjusters registered several times, as base and as      *)
(* after-adjuster, and supplied again by the wiring they add; one build,    *)
(* one creation                                                             *)

OnceOps == {OpBW("f"), OpBW("r"), OpWA(TA, "f"), OpWA(TA, "r"), OpAC(TA, "a")}

NextOnce ==
    \/ NewBuilder(0)
    \/ \E op \in OnceOps : built = <<>> /\ BuilderCall(op, MaxOpsOnce)
    \/ built = <<>> /\ Build(1)
    \/ \E t \in Types : calls = <<>> /\ CreateContainer(t, <<>>)
    \/ \E i \in 1..Len(calls) : AddWiringStep(i)
    \/ \E i \in 1..Len(calls) : WiringAdjusterReturns(i)
    \/ \E i \in 1..Len(calls) : BaseGathered(i)
    \/ \E i \in 1..Len(calls) : ContainerAdjusterReturns(i)

SpecOnce == Init /\ [][NextOnce]_vars

---------------------------------------------------------------------------
(* SpecNested: base wiring adjusters whose wiring registers base wiring     *)
(* adjusters: m adds wiring that registers n, n adds wiring that registers  *)
(* f, f adds wiring that adjusts A; one build, one creation                 *)

NestedOps == {OpAC(TA, "a"), OpAC(TAB, "a"), OpBW("f"), OpBW("n"), OpBW("m")}

NextNested ==
    \/ NewBuilder(0)
    \/ \E op \in NestedOps : built = <<>> /\ BuilderCall(op, MaxOpsNested)
    \/ built = <<>> /\ Build(1)
    \/ \E t \in Types : calls = <<>> /\ CreateContainer(t, <<>>)
    \/ \E i \in 1..Len(calls) : AddWiringStep(i)
    \/ \E i \in 1..Len(calls) : WiringAdjusterReturns(i)
    \/ \E i \in 1..Len(calls) : BaseGathered(i)
    \/ \E i \in 1..Len(calls) : ContainerAdjusterReturns(i)

SpecNested == Init /\ [][NextNested]_vars

---------------------------------------------------------------------------
(* SpecInvalid: builder calls with valid and with invalid arguments, and    *)
(* builds                                                                   *)

InvalidOps ==
    {OpAC(t, "a") : t \in {NotAString, <<"">>, <<"", "A">>, <<"A", "">>}}
    \cup {OpAC(TA, NotAFunction), OpBW(NotAFunction),
          OpWA(<<"A", "">>, "f"), OpWA(TA, NotAFunction)}
    \cup {OpAW(v) : v \in {UNDEF, NULL, Faulty}}

ValidOps == {OpAC(TA, "a"), OpBW("f"), OpWA(TA, "g"), OpAW(1)}

NextInvalid ==
    \/ \E v \in {UNDEF, NULL, Faulty, 1} :
          Len(regs) < MaxOpsInvalid /\ NewBuilderWith(v)
    \/ \E op \in InvalidOps \cup ValidOps : BuilderCallWith(op, MaxOpsInvalid)
    \/ Build(MaxOpsInvalid)

SpecInvalid == Init /\ [][NextInvalid]_vars

---------------------------------------------------------------------------
(* SpecCreate: creations of every kind with valid, invalid and missing      *)
(* container types, one at a time                                           *)

CreateOps == {OpAC(TA, "a"), OpBW("f"), OpWA(TA, "g")}

CreateTypes == {TA, TAB, NotAString, <<"">>, <<"", "A">>, <<"A", "">>}

NextCreate ==
    \/ NewBuilder(0)
    \/ \E op \in CreateOps : built = <<>> /\ BuilderCall(op, MaxOpsCreate)
    \/ built = <<>> /\ Build(1)
    \/ \E t \in CreateTypes :
          Len(calls) < MaxCallsCreate /\ AllSettled /\ CreateContainer(t, <<>>)
    \/ \E t \in CreateTypes :
          Len(calls) < MaxCallsCreate /\ AllSettled /\ CreateContainerFactory(t, <<>>)
    \/ \E t \in CreateTypes :
          Len(calls) < MaxCallsCreate /\ AllSettled /\ CreateEnsuingContainer(t, <<>>)
    \/ Len(calls) < MaxCallsCreate /\ AllSettled /\ InvokeFactory(<<>>)
    \/ \E i \in 1..Len(calls) : AddWiringStep(i)
    \/ \E i \in 1..Len(calls) : WiringAdjusterReturns(i)
    \/ \E i \in 1..Len(calls) : BaseGathered(i)
    \/ \E i \in 1..Len(calls) : ContainerAdjusterReturns(i)

SpecCreate == Init /\ [][NextCreate]_vars

---------------------------------------------------------------------------
(* SpecThrow: adjusters that may throw or reject; one build, then creations *)
(* of every kind, one at a time                                             *)

ThrowOps == {OpAC(TA, "a"), OpAC(TA, "b"), OpBW("f"), OpWA(TA, "g")}

NextThrow ==
    \/ NewBuilder(0)
    \/ \E op \in ThrowOps : built = <<>> /\ BuilderCall(op, MaxOpsThrow)
    \/ built = <<>> /\ Build(1)
    \/ Len(calls) < MaxCallsThrow /\ AllSettled /\ CreateContainer(TA, <<>>)
    \/ Len(calls) < MaxCallsThrow /\ AllSettled /\ CreateContainerFactory(TA, <<>>)
    \/ Len(calls) < MaxCallsThrow /\ AllSettled /\ CreateEnsuingContainer(TA, <<>>)
    \/ Len(calls) < MaxCallsThrow /\ AllSettled /\ InvokeFactory(<<>>)
    \/ \E i \in 1..Len(calls) : AddWiringStep(i)
    \/ \E i \in 1..Len(calls) : WiringAdjusterReturns(i)
    \/ \E i \in 1..Len(calls) : BaseGathered(i)
    \/ \E i \in 1..Len(calls) : ContainerAdjusterReturns(i)
    \/ \E i \in 1..Len(calls) : AdjusterThrows(i)

SpecThrow == Init /\ [][NextThrow]_vars

---------------------------------------------------------------------------
(* SpecDesc: after-adjusters and container adjusters over the types A, A.B  *)
(* and P, where A.B is registered in the builder, comes with added wiring   *)
(* or is supplied by a base wiring adjuster; one build, one creation        *)

DescTypes == {TA, TAB, TAC, TP}

DescOps ==
    {OpWA(TA, "f"), OpWA(TAB, "g"), OpAC(TAB, "b"), OpAC(TA, "a"),
     OpAC(TAC, "a"), OpAC(TP, "a"), OpAW(3), OpBW("h")}

NextDesc ==
    \/ NewBuilder(0)
    \/ \E op \in DescOps : built = <<>> /\ BuilderCall(op, MaxOpsDesc)
    \/ built = <<>> /\ Build(1)
    \/ \E t \in DescTypes : calls = <<>> /\ CreateContainer(t, <<>>)
    \/ \E i \in 1..Len(calls) : AddWiringStep(i)
    \/ \E i \in 1..Len(calls) : WiringAdjusterReturns(i)
    \/ \E i \in 1..Len(calls) : BaseGathered(i)
    \/ \E i \in 1..Len(calls) : ContainerAdjusterReturns(i)

SpecDesc == Init /\ [][NextDesc]_vars

---------------------------------------------------------------------------
(* SpecArgs: creations of every kind with arguments; the j-th argument that *)
(* the caller of call i passes is the value 10 * i + j                      *)

GivenArgs(i, n) == [j \in 1..n |-> 10 * i + j]

ArgsOps == {OpAC(TA, "a"), OpBW("f"), OpWA(TA, "g")}

NextArgs ==
    \/ NewBuilder(0)
    \/ \E op \in ArgsOps : built = <<>> /\ BuilderCall(op, MaxOpsArgs)
    \/ built = <<>> /\ Build(1)
    \/ \E n \in 0..MaxArgs :
          Len(calls) < MaxCallsArgs /\ AllSettled
              /\ CreateContainer(TA, GivenArgs(Len(calls) + 1, n))
    \/ \E n \in 0..MaxArgs :
          Len(calls) < MaxCallsArgs /\ AllSettled
              /\ CreateContainerFactory(TA, GivenArgs(Len(calls) + 1, n))
    \/ \E n \in 0..MaxArgs :
          Len(calls) < MaxCallsArgs /\ AllSettled
              /\ CreateEnsuingContainer(TA, GivenArgs(Len(calls) + 1, n))
    \/ \E n \in 0..MaxArgs :
          Len(calls) < MaxCallsArgs /\ AllSettled
              /\ InvokeFactory(GivenArgs(Len(calls) + 1, n))
    \/ \E i \in 1..Len(calls) : AddWiringStep(i)
    \/ \E i \in 1..Len(calls) : WiringAdjusterReturns(i)
    \/ \E i \in 1..Len(calls) : BaseGathered(i)
    \/ \E i \in 1..Len(calls) : ContainerAdjusterReturns(i)

SpecArgs == Init /\ [][NextArgs]_vars

---------------------------------------------------------------------------
(* SpecSub: a builder that imports nothing, a Wiring or a SubclassedWiring; *)
(* one build, then creations of every kind, one at a time                   *)

\* new SubclassedWiring(), where class SubclassedWiring extends Wiring {}
NewSubclassedWiring ==
    /\ builder = 0
    /\ heap = LibHeap
    /\ heap' = Append(heap, EmptyWiring("SubclassedWiring"))
    /\ UNCHANGED <<builder, nops, regs, built, builtAt, calls>>

SubOps == {OpAC(TA, "a"), OpBW("f"), OpAW(1)}

NextSub ==
    \/ NewSubclassedWiring
    \/ \E src \in {0, 1, Len(LibHeap) + 1} : src <= Len(heap) /\ NewBuilder(src)
    \/ \E op \in SubOps : built = <<>> /\ BuilderCall(op, MaxOpsSub)
    \/ built = <<>> /\ Build(1)
    \/ Len(calls) < MaxCallsSub /\ AllSettled /\ CreateContainer(TA, <<>>)
    \/ Len(calls) < MaxCallsSub /\ AllSettled /\ CreateContainerFactory(TA, <<>>)
    \/ Len(calls) < MaxCallsSub /\ AllSettled /\ CreateEnsuingContainer(TA, <<>>)
    \/ Len(calls) < MaxCallsSub /\ AllSettled /\ InvokeFactory(<<>>)
    \/ \E i \in 1..Len(calls) : AddWiringStep(i)
    \/ \E i \in 1..Len(calls) : WiringAdjusterReturns(i)
    \/ \E i \in 1..Len(calls) : BaseGathered(i)
    \/ \E i \in 1..Len(calls) : ContainerAdjusterReturns(i)

SpecSub == Init /\ [][NextSub]_vars

---------------------------------------------------------------------------
(* SpecCallback: wiring adjusters that pass a value that is not a Wiring to *)
(* their addWiring callback; one build, then creations of every kind        *)

CallbackOps ==
    {OpAC(TA, "a"), OpBW("v"), OpBW("w"), OpWA(TA, "v"), OpWA(TA, "w")}

NextCallback ==
    \/ NewBuilder(0)
    \/ \E op \in CallbackOps : built = <<>> /\ BuilderCall(op, MaxOpsCallback)
    \/ built = <<>> /\ Build(1)
    \/ Len(calls) < MaxCallsCallback /\ AllSettled /\ CreateContainer(TA, <<>>)
    \/ Len(calls) < MaxCallsCallback /\ AllSettled
          /\ CreateContainerFactory(TA, <<>>)
    \/ Len(calls) < MaxCallsCallback /\ AllSettled
          /\ CreateEnsuingContainer(TA, <<>>)
    \/ Len(calls) < MaxCallsCallback /\ AllSettled /\ InvokeFactory(<<>>)
    \/ \E i \in 1..Len(calls) : AddWiringStep(i)
    \/ \E i \in 1..Len(calls) : WiringAdjusterReturns(i)
    \/ \E i \in 1..Len(calls) : BaseGathered(i)
    \/ \E i \in 1..Len(calls) : ContainerAdjusterReturns(i)

SpecCallback == Init /\ [][NextCallback]_vars

---------------------------------------------------------------------------
(* SpecStruct: the structured layer. StructuredWiringBuilder instances that  *)
(* import nothing, a structured library wiring or a wiring built before;    *)
(* then Boot containers and, through their 'appContainer' bean, App         *)
(* containers                                                               *)

\* the two adjustContainer calls of the StructuredWiringBuilder constructor
StructuredConstruct(w) ==
    _adjustContainer(_adjustContainer(w, TBoot, "_populateBootContainer"),
                     TApp, "_populateAppContainer")

InitStruct ==
    /\ heap = Append(LibHeap,
                     WiringCopy(StructuredConstruct(EmptyWiring("StructuredWiring"))))
    /\ builder = 0
    /\ nops = 0
    /\ regs = <<>>
    /\ built = <<>>
    /\ builtAt = <<>>
    /\ calls = <<>>

\* new StructuredWiringBuilder(wiring); src = 0: no wiring is passed
NewStructuredWiringBuilder(src) ==
    /\ calls = <<>>
    /\ Cardinality({j \in 1..Len(regs) : regs[j].op = "import"}) < MaxBuildersStruct
    /\ heap' = Append(heap, StructuredConstruct(
                                IF src = 0 THEN EmptyWiring("StructuredWiring")
                                ELSE WiringCopy(heap[src])))
    /\ builder' = ImportClone(heap, src)
    /\ regs' = Append(regs, OpImport(src))
    /\ UNCHANGED <<nops, built, builtAt, calls>>

\* the Boot container as it is passed to _populateAppContainer and to the
\* adjusters of the App container: the container that call p returned
BootContainer(p) == 100 + p

BootOptions == {1, 2}

\* the beans that the built-in populators register: the definition of each
\* bean, by name
_populateBootContainer(container) ==
    [appContainer |-> [factory |-> "wiring.createContainer",
                       args |-> <<TApp, container>>],
     app |-> [bean |-> <<"appContainer", "app">>]]

_populateAppContainer(container, bootContainer) ==
    [bootContainer |-> [value |-> bootContainer]]

\* the wiring that the last build() returned, and whether the builder has
\* been used since
LastBuilt == built[Len(built)]
JustBuilt == built # <<>> /\ builtAt[Len(built)] = Len(regs)

\* wiring.createBootContainer(bootOptions)
CreateBootContainer(bootOptions) ==
    /\ JustBuilt
    /\ StartCall("container", LastBuilt, "direct", 0, TBoot, <<bootOptions>>)

\* a createAppContainer that creates the Boot container without options
CreateAppContainerWithoutOptions(bootOptions) ==
    /\ JustBuilt
    /\ StartCall("container", LastBuilt, "createAppContainer", 0, TBoot, <<>>)

\* wiring.createAppContainer(bootOptions), up to the first await that yields
CreateAppContainer(bootOptions) ==
    /\ JustBuilt
    /\ StartCall("container", LastBuilt, "createAppContainer", 0, TBoot,
                 <<bootOptions>>)

\* bootContainer.get('appContainer'): the factory bean that
\* _populateBootContainer registered calls wiring.createContainer('App',
\* bootContainer) on the 'wiring' bean of the Boot container p
GetAppContainer ==
    \E p \in 1..Len(calls) :
        /\ calls[p].t = TBoot
        /\ calls[p].pc = "done"
        /\ \E n \in 1..Len(calls[p].log) :
              calls[p].log[n].fn = "_populateBootContainer"
        /\ LET appContainer == _populateBootContainer(BootContainer(p)).appContainer
           IN  StartCall("container", calls[p].w, "ensuing", p,
                         appContainer.args[1], <<appContainer.args[2]>>)

StructOps ==
    {OpAC(TBoot, "a"), OpAC(TApp, "b"), OpAW(StructLib), OpBW("s"),
     OpWA(TBoot, "s")}

NextStruct ==
    \/ \E src \in {0, StructLib} : builder = 0 /\ NewStructuredWiringBuilder(src)
    \/ JustBuilt /\ NewStructuredWiringBuilder(LastBuilt)
    \/ \E op \in StructOps : BuilderCall(op, MaxOpsStruct)
    \/ ~JustBuilt /\ Build(MaxBuildersStruct)
    \/ Len(calls) < MaxCallsStruct /\ AllSettled /\ CreateBootContainer(1)
    \/ \E o \in BootOptions :
          Len(calls) < MaxCallsStruct /\ AllSettled /\ CreateAppContainer(o)
    \/ Len(calls) < MaxCallsStruct /\ AllSettled /\ GetAppContainer
    \/ \E i \in 1..Len(calls) : AddWiringStep(i)
    \/ \E i \in 1..Len(calls) : WiringAdjusterReturns(i)
    \/ \E i \in 1..Len(calls) : BaseGathered(i)
    \/ \E i \in 1..Len(calls) : ContainerAdjusterReturns(i)

SpecStruct == InitStruct /\ [][NextStruct]_vars

---------------------------------------------------------------------------
(* SpecTerm: wiring adjusters whose supplied wiring registers themselves (r) *)
(* or each other (p and q), as base wiring adjusters and as after-adjusters; *)
(* every invocation of a wiring adjuster settles                            *)

TermOps ==
    {OpAC(TA, "a"), OpBW("r"), OpBW("p"), OpWA(TA, "r"), OpWA(TA, "p")}

InitTerm ==
    /\ heap = LibHeap \o [i \in 1..Len(MutualLibRegs) |->
                             WiringCopy(RunProgram(<<>>, EmptyWiring("Wiring"),
                                                   MutualLibRegs[i]))]
    /\ builder = 0
    /\ nops = 0
    /\ regs = <<>>
    /\ built = <<>>
    /\ builtAt = <<>>
    /\ calls = <<>>

NextTerm ==
    \/ NewBuilder(0)
    \/ \E op \in TermOps : built = <<>> /\ BuilderCall(op, MaxOpsTerm)
    \/ built = <<>> /\ Build(1)
    \/ Len(calls) < MaxCallsTerm /\ AllSettled /\ CreateContainer(TA, <<>>)
    \/ Len(calls) < MaxCallsTerm /\ AllSettled /\ CreateContainerFactory(TA, <<>>)
    \/ Len(calls) < MaxCallsTerm /\ AllSettled /\ CreateEnsuingContainer(TA, <<>>)
    \/ Len(calls) < MaxCallsTerm /\ AllSettled /\ InvokeFactory(<<>>)
    \/ \E i \in 1..Len(calls) : AddWiringStep(i)
    \/ \E i \in 1..Len(calls) : WiringAdjusterReturns(i)
    \/ \E i \in 1..Len(calls) : BaseGathered(i)
    \/ \E i \in 1..Len(calls) : ContainerAdjusterReturns(i)

\* the wiring adjuster in flight makes its addWiring calls and its promise
\* settles
SpecTerm ==
    /\ InitTerm
    /\ [][NextTerm]_vars
    /\ WF_vars(\E i \in 1..Len(calls) : AddWiringStep(i))
    /\ WF_vars(\E i \in 1..Len(calls) : WiringAdjusterReturns(i))

---------------------------------------------------------------------------
(* Observations on a creation call *)

IsCA(e) == e.k = "ca"
IsWA(e) == e.k = "wa"
FnsOf(events) == [i \in 1..Len(events) |-> events[i].fn]

\* the container adjusters the call has invoked, in order
CALog(c) == FnsOf(SelectSeq(c.log, IsCA))
\* the wiring adjusters the call has invoked, in order
WALog(c) == FnsOf(SelectSeq(c.log, IsWA))

Count(seq, v) == Cardinality({i \in 1..Len(seq) : seq[i] = v})
Elems(seq) == {seq[i] : i \in 1..Len(seq)}
IsPrefix(p, q) == Len(p) <= Len(q) /\ SubSeq(q, 1, Len(p)) = p

\* every repeated element kept only at its first occurrence
RECURSIVE DedupFirst(_)
DedupFirst(seq) ==
    IF seq = <<>> THEN <<>>
    ELSE LET init == DedupFirst(SubSeq(seq, 1, Len(seq) - 1))
             last == seq[Len(seq)]
         IN  IF last \in Elems(init) THEN init ELSE Append(init, last)

\* the loop over the container adjusters of the call has ended
ApplyEnded(c) == c.kind = "container" /\ c.ph = "after"

\* the builder calls made before the build() that returned the wiring src
RegsOf(src) ==
    IF \E b \in 1..Len(built) : built[b] = src
    THEN SubSeq(regs, 1, builtAt[CHOOSE b \in 1..Len(built) : built[b] = src])
    ELSE <<>>

---------------------------------------------------------------------------
(* C2 *)

\* the functions of the adjustContainer calls of rs that target T or an
\* ancestor of T, in call order
RECURSIVE TargetingInOrder(_, _)
TargetingInOrder(rs, T) ==
    IF rs = <<>> THEN <<>>
    ELSE LET r == Head(rs)
         IN  (IF r.op = "ac" /\ IsSelfOrAncestor(r.t, T) THEN <<r.fn>> ELSE <<>>)
             \o TargetingInOrder(Tail(rs), T)

\* C2: after any sequence of adjustContainer calls over a type hierarchy,
\* createContainer(T) invokes the adjusters in the registration order of the
\* calls that target T or an ancestor of T, each repeated function kept only
\* at its first occurrence: at every moment the invocations made are a prefix
\* of that order, and all of it once the loop has ended.
C2_RegistrationOrder ==
    \A i \in 1..Len(calls) :
        LET c == calls[i]
            expected == DedupFirst(TargetingInOrder(RegsOf(c.src), c.t))
        IN  /\ IsPrefix(CALog(c), expected)
            /\ ApplyEnded(c) => CALog(c) = expected

\* a creation of A.B.C ended after the descendant was adjusted before its
\* ancestor, with a function registered twice
C2_Witness ==
    \E i \in 1..Len(calls) :
        /\ calls[i].pc = "done"
        /\ calls[i].t = TABC
        /\ regs = <<OpAC(TABC, "a"), OpAC(TA, "b"), OpAC(TAB, "a"), OpAC(TAB, "b")>>
        /\ CALog(calls[i]) = <<"a", "b">>

---------------------------------------------------------------------------
(* C4 *)

\* C4: for a type T known to the built wiring, createContainer(T) is not
\* rejected as unknown and, once done, has invoked every container adjuster
\* that adjustContainer registered for an ancestor of T.
C4_AncestorInheritance ==
    \A i \in 1..Len(calls) :
        LET c == calls[i]
            rs == RegsOf(c.src)
        IN  (c.via = "direct" /\ Has(heap[c.src].ca, CKey(c.t))) =>
                /\ c.pc # "rejected"
                /\ c.pc = "done" =>
                      \A j \in 1..Len(rs) :
                          (rs[j].op = "ac" /\ StartsWithDot(c.t, rs[j].t))
                              => rs[j].fn \in Elems(CALog(c))

\* a creation of A.B.C ended where A.B was never registered and A was
\* adjusted both before and after A.B.C was first referenced
C4_Witness ==
    \E i \in 1..Len(calls) :
        /\ calls[i].pc = "done"
        /\ calls[i].t = TABC
        /\ regs = <<OpAC(TA, "a"), OpAC(TABC, "a"), OpAC(TA, "b")>>
        /\ ~Has(heap[calls[i].src].ca, CKey(TAB))
        /\ CALog(calls[i]) = <<"a", "b">>


---------------------------------------------------------------------------
(* C1 *)

\* the entries met when the list of key k is followed through the wirings
\* that resolved wiring adjusters have supplied, as a set
RECURSIVE Reach(_, _, _, _, _)
Reach(h, sup, k, R, n) ==
    IF n = 0 THEN R
    ELSE LET resolved == {e \in R : sup[e] >= 1 /\ Has(h[sup[e]].ca, k)}
         IN  Reach(h, sup, k,
                   R \cup UNION {Elems(Get(h[sup[e]].ca, k)) : e \in resolved},
                   n - 1)

\* the container adjusters reachable for key k in wiring w
ReachableAdjusters(h, w, k) ==
    {e \in Reach(h, h[w].sup, k, Elems(Get(h[w].ca, k)), Cardinality(Fns)) :
        h[w].sup[e] = UNDEF}

\* C1: a createContainer(T) call never invokes a container adjuster function
\* twice and, when its loop has ended, has invoked exactly once every
\* container adjuster reachable for T (directly, through an added wiring,
\* through supplied wiring) and nothing else.
C1_ExactlyOnce ==
    \A i \in 1..Len(calls) :
        LET c == calls[i]
        IN  /\ \A fn \in Fns : Count(CALog(c), fn) <= 1
            /\ ApplyEnded(c) =>
                  \A fn \in Fns :
                      Count(CALog(c), fn) =
                          IF fn \in ReachableAdjusters(heap, c.w, CKey(c.t))
                          THEN 1 ELSE 0

\* a creation ended where x was registered directly, came with an added
\* wiring and was supplied by a base wiring adjuster, and ran once
C1_Witness ==
    \E i \in 1..Len(calls) :
        /\ calls[i].pc = "done"
        /\ calls[i].t = TA
        /\ regs = <<OpAC(TA, "x"), OpAW(1), OpBW("f")>>
        /\ WALog(calls[i]) = <<"f">>
        /\ CALog(calls[i]) = <<"x">>

---------------------------------------------------------------------------
(* C3 *)

\* the container adjusters for T of the builder calls rs with the
\* contribution of every base wiring adjuster and of every added wiring put
\* in the place of the call that registered it
RECURSIVE Inline(_, _, _)
RECURSIVE InlineLibs(_, _, _)
Inline(rs, T, depth) ==
    IF rs = <<>> \/ depth = 0 THEN <<>>
    ELSE LET r == Head(rs)
             here ==
                 CASE r.op = "ac" ->
                        IF IsSelfOrAncestor(r.t, T) THEN <<r.fn>> ELSE <<>>
                   [] r.op = "bw" -> InlineLibs(Supplies(r.fn), T, depth - 1)
                   [] r.op \in {"aw", "import"} ->
                        Inline(LibRegs[r.lib], T, depth - 1)
                   [] OTHER -> <<>>
         IN  here \o Inline(Tail(rs), T, depth)
InlineLibs(ls, T, depth) ==
    IF ls = <<>> THEN <<>>
    ELSE Inline(LibRegs[Head(ls)], T, depth) \o InlineLibs(Tail(ls), T, depth)

InlineDepth == Len(LibRegs) + 1

\* C3: when the builder mixes adjustContainer, adjustBaseWiring and addWiring
\* and T is a type of the built wiring, createContainer(T) invokes the
\* container adjusters in the order of the builder calls, the adjusters
\* supplied by a base wiring adjuster standing where that wiring adjuster was
\* registered and those of an added wiring where addWiring was called.
C3_InlinedAtRegistration ==
    \A i \in 1..Len(calls) :
        LET c == calls[i]
            expected == DedupFirst(Inline(RegsOf(c.src), c.t, InlineDepth))
        IN  (c.via = "direct" /\ Has(heap[c.src].ca, CKey(c.t))) =>
                /\ IsPrefix(CALog(c), expected)
                /\ ApplyEnded(c) => CALog(c) = expected

\* a creation ended whose builder added a wiring, then registered a base
\* wiring adjuster, then adjusted the container
C3_Witness ==
    \E i \in 1..Len(calls) :
        /\ calls[i].pc = "done"
        /\ calls[i].t = TA
        /\ regs = <<OpAW(2), OpBW("f"), OpAC(TA, "a")>>
        /\ CALog(calls[i]) = <<"y", "x", "a">>

\* a creation ended after two base wiring adjusters and a container adjuster
C3_WitnessTwoBase ==
    \E i \in 1..Len(calls) :
        /\ calls[i].pc = "done"
        /\ regs = <<OpBW("g"), OpBW("f"), OpAC(TA, "a")>>
        /\ CALog(calls[i]) = <<"y", "x", "a">>


---------------------------------------------------------------------------
(* C5 *)

\* the wiring a builder holds after the builder calls rs
Replay(rs) ==
    IF rs # <<>> /\ Head(rs).op = "import"
    THEN RunProgram(LibHeap, WiringCopy(LibHeap[Head(rs).lib]), Tail(rs))
    ELSE RunProgram(LibHeap, EmptyWiring("Wiring"), rs)

---------------------------------------------------------------------------
(* C6 *)

\* C6: a Wiring passed to new WiringBuilder, to builder.addWiring or to the
\* addWiring callback of a wiring adjuster is left unchanged, and a creation
\* on it invokes what its own builder calls registered whatever the
\* importing builder did later: it is rejected exactly when the type is
\* unknown to it.
C6_ImportedWiringUnchanged ==
    /\ \A l \in Libs : heap[l] = LibHeap[l]
    /\ \A i \in 1..Len(calls) :
          LET c == calls[i]
              known == Has(LibHeap[c.src].ca, CKey(c.t))
              expected == DedupFirst(Inline(LibRegs[c.src], c.t, InlineDepth))
          IN  c.src \in Libs =>
                  /\ c.pc = "rejected" => ~known
                  /\ c.pc = "done" => known /\ CALog(c) = expected
                  /\ known => IsPrefix(CALog(c), expected)

\* library wiring 1 was imported by the constructor, added with addWiring and
\* passed to the callback of wiring adjuster f during a creation from the
\* built wiring; afterwards a creation on wiring 1 itself ended
C6_Witness ==
    /\ regs = <<OpImport(1), OpAW(1), OpBW("f")>>
    /\ \E i, j \in 1..Len(calls) :
          /\ i < j
          /\ calls[i].src \in Elems(built)
          /\ calls[i].pc = "done"
          /\ WALog(calls[i]) = <<"f">>
          /\ calls[j].src = 1
          /\ calls[j].pc = "done"
          /\ CALog(calls[j]) = <<"x">>

---------------------------------------------------------------------------
(* C7 *)

\* the wiring r and the wirings its wiring adjusters have supplied are the
\* same in heap h2 as in heap h1
SameWiringState(h1, h2, r) ==
    /\ h2[r] = h1[r]
    /\ \A f \in Fns : h1[r].sup[f] >= 1 => h2[h1[r].sup[f]] = h1[h1[r].sup[f]]

\* what a call invoked, without the identity of the container
Trace(c) == [n \in 1..Len(c.log) |-> <<c.log[n].k, c.log[n].fn, c.log[n].args>>]

\* C7: no step of createContainer, of createContainerFactory or of a call of
\* a returned factory changes the Wiring it was called on, whether it
\* fulfils or rejects: its wiring adjusters stay unresolved and pending, and
\* two settled creations of one type from one Wiring invoked the same
\* adjusters and ended the same way.
C7_CalledWiringUnchanged ==
    [][ /\ \A i \in 1..Len(calls') :
              SameWiringState(heap, heap', calls'[i].src)
        /\ \A i, j \in 1..Len(calls') :
              ( /\ calls'[i].src = calls'[j].src
                /\ calls'[i].t = calls'[j].t
                /\ calls'[i].kind = calls'[j].kind
                /\ Settled(calls'[i]) /\ Settled(calls'[j]) )
              => /\ Trace(calls'[i]) = Trace(calls'[j])
                 /\ calls'[i].pc = calls'[j].pc
      ]_vars

\* two creations from one built wiring ended, each having invoked base wiring
\* adjuster f and after-adjuster h, and both are still unresolved and pending
\* in the built wiring
C7_Witness ==
    \E i, j \in 1..Len(calls) :
        /\ i < j
        /\ regs = <<OpBW("f"), OpWA(TA, "h")>>
        /\ calls[i].src = calls[j].src
        /\ calls[i].src \in Elems(built)
        /\ calls[i].pc = "done" /\ calls[j].pc = "done"
        /\ WALog(calls[i]) = <<"f", "h">>
        /\ WALog(calls[j]) = <<"f", "h">>
        /\ heap[calls[i].src].sup["f"] = NULL
        /\ heap[calls[i].src].sup["h"] = NULL
        /\ Get(heap[calls[i].src].wa, ROOT) = <<"f">>
        /\ Get(heap[calls[i].src].wa, calls[i].t) = <<"h">>


---------------------------------------------------------------------------
(* C8 *)

\* call c (number i) run from heap h to its end with no other call in between
RECURSIVE RunAlone(_, _, _)
RunAlone(h, c, i) ==
    IF Settled(c) THEN c
    ELSE IF c.pc = "wa" /\ c.todo # <<>>
    THEN RunAlone(AddWiringCallback(h, c.w, c.curS, Head(c.todo)),
                  [c EXCEPT !.todo = Tail(@)], i)
    ELSE LET r == Resume(h, c, i) IN RunAlone(r.h, r.c, i)

\* the same call as c made alone on the wiring c was called on
Alone(c, i) ==
    LET c0 == [NoCall EXCEPT !.kind = c.kind, !.src = c.src, !.via = c.via,
                             !.parent = c.parent, !.w = Len(heap) + 1,
                             !.t = c.t, !.args = c.args]
        r == EnterGather(Append(heap, WiringCopy(heap[c.src])), c0, i,
                         "base", ROOT, "gathered")
    IN  RunAlone(r.h, r.c, i)

\* C8: however the steps of two createContainer calls, or of two calls of one
\* factory, on the same Wiring interleave, each call invokes the adjusters it
\* invokes when run alone, in the same order, with its own arguments and on
\* its own container (a base wiring adjuster is given none), and settles the
\* same way.
C8_InterleavedAsAlone ==
    \A i \in 1..Len(calls) :
        LET c == calls[i]
            alone == Alone(c, i)
        IN  /\ IsPrefix(c.log, alone.log)
            /\ \A n \in 1..Len(c.log) : c.log[n].ctr \in {0, i}
            /\ Settled(c) => c.log = alone.log /\ c.pc = alone.pc

\* two creations from the built wiring ended; a wiring adjuster of the first
\* was called after the second creation had started, and one of the second
\* after that: their steps interleaved
C8_Witness ==
    /\ Len(calls) = 2
    /\ calls[1].pc = "done" /\ calls[2].pc = "done"
    /\ calls[1].src = calls[2].src
    /\ CALog(calls[1]) # <<>> /\ CALog(calls[2]) # <<>>
    /\ \E f1, f2 \in Fns :
          /\ heap[calls[1].w].sup[f1] > calls[2].w
          /\ heap[calls[2].w].sup[f2] > heap[calls[1].w].sup[f1]


---------------------------------------------------------------------------
(* C9 *)

\* the wiring returned by build() from which call i descends
RECURSIVE RootOf(_)
RootOf(i) == IF calls[i].parent = 0 THEN calls[i].src ELSE RootOf(calls[i].parent)

\* the pairs <<type, container adjuster>> that wiring adjuster q supplies
SuppliedBy(q) ==
    UNION {{<<LibRegs[l][n].t, LibRegs[l][n].fn>> :
               n \in {m \in 1..Len(LibRegs[l]) : LibRegs[l][m].op = "ac"}} :
           l \in Elems(Supplies(q))}

\* in the builder calls rs, q is registered with adjustWiringAfter only and
\* container adjuster s comes from nowhere but q
OnlySourceAfter(rs, q, s) ==
    \A j \in 1..Len(rs) :
        /\ rs[j].op \in {"ac", "bw", "wa"}
        /\ rs[j].op = "bw" => rs[j].fn # q
        /\ rs[j].op = "ac" => rs[j].fn # s
        /\ rs[j].op \in {"bw", "wa"} /\ rs[j].fn # q =>
              \A T \in AfterTypes : <<T, s>> \notin SuppliedBy(rs[j].fn)

\* C9: with an after-adjuster q registered for type P that supplies container
\* adjuster s for type T, a container of type T created through the 'wiring'
\* bean of a finished P container has s applied (once), and a container of
\* type T created directly from the built wiring, before or after any
\* creation of P, has not (s reaching T through q only).
C9_EnsuingNotIndependent ==
    \A i \in 1..Len(calls) : \A q \in {"f", "g"} : \A s \in {"x", "y"} :
        LET c == calls[i]
            rs == RegsOf(RootOf(i))
        IN  (c.kind = "container" /\ <<c.t, s>> \in SuppliedBy(q)) =>
                /\ ( /\ c.via = "ensuing"
                     /\ c.pc = "done"
                     /\ \E j \in 1..Len(rs) : rs[j] = OpWA(calls[c.parent].t, q) )
                   => Count(CALog(c), s) = 1
                /\ ( /\ c.via = "direct"
                     /\ \E j \in 1..Len(rs) : rs[j].op = "wa" /\ rs[j].fn = q
                     /\ OnlySourceAfter(rs, q, s) )
                   => s \notin Elems(CALog(c))

\* after-adjuster f for Primer supplies x for A: a Primer container was
\* created, an A container created through it has x applied, and an A
\* container created from the built wiring after that has not
C9_Witness ==
    /\ regs = <<OpAC(TA, "a"), OpWA(TP, "f")>>
    /\ Len(calls) = 3
    /\ calls[1].t = TP /\ calls[1].via = "direct" /\ WALog(calls[1]) = <<"f">>
    /\ calls[2].t = TA /\ calls[2].via = "ensuing" /\ calls[2].parent = 1
    /\ calls[2].pc = "done" /\ CALog(calls[2]) = <<"a", "x">>
    /\ calls[3].t = TA /\ calls[3].via = "direct"
    /\ calls[3].pc = "done" /\ CALog(calls[3]) = <<"a">>

---------------------------------------------------------------------------
(* C10 *)

---------------------------------------------------------------------------
(* C11 *)

\* the creations before call i in its chain of ensuing containers: the call
\* whose container's 'wiring' bean it was made on, and so on up to the
\* independent creation
RECURSIVE ChainBefore(_)
ChainBefore(i) ==
    IF calls[i].via # "ensuing" THEN {}
    ELSE {calls[i].parent} \cup ChainBefore(calls[i].parent)

\* C11: along a chain of ensuing containers, a wiring adjuster invoked during
\* the creation of an earlier container of the chain is not invoked during
\* the creation of a later one, whatever the type of the later container.
C11_NotAgainAlongChain ==
    \A i \in 1..Len(calls) : \A j \in ChainBefore(i) :
        Elems(WALog(calls[i])) \cap Elems(WALog(calls[j])) = {}

\* f is an after-adjuster of A and of P: it was invoked for the A container,
\* and neither the P container created through it nor the A container
\* created through that one invoked it again
C11_Witness ==
    /\ regs = <<OpWA(TA, "f"), OpWA(TP, "f")>>
    /\ Len(calls) = 3
    /\ calls[1].t = TA /\ calls[1].via = "direct" /\ WALog(calls[1]) = <<"f">>
    /\ calls[2].t = TP /\ calls[2].via = "ensuing" /\ calls[2].parent = 1
    /\ calls[2].pc = "done" /\ WALog(calls[2]) = <<>>
    /\ calls[3].t = TA /\ calls[3].via = "ensuing" /\ calls[3].parent = 2
    /\ calls[3].pc = "done" /\ WALog(calls[3]) = <<>>

---------------------------------------------------------------------------
(* C12 *)

\* C12: within one creation call no wiring adjuster function is invoked more
\* than once, however often and under whichever keys it is registered and
\* also when wiring added while it or a later adjuster runs registers it
\* again; and while a wiring adjuster is in flight it is already recorded as
\* resolved, with the wiring it is supplying.
C12_WiringAdjusterAtMostOnce ==
    \A i \in 1..Len(calls) :
        LET c == calls[i]
        IN  /\ \A fn \in Fns : Count(WALog(c), fn) <= 1
            /\ c.pc = "wa" =>
                  /\ c.curS >= 1
                  /\ heap[c.w].sup[c.cur] = c.curS

\* r was registered twice as base adjuster and once as after-adjuster; while
\* it ran it added wiring that registers r again and f; the call invoked r
\* once, then f, and met r on the list three more times without calling it
C12_Witness ==
    \E i \in 1..Len(calls) :
        /\ regs = <<OpBW("r"), OpBW("r"), OpWA(TA, "r")>>
        /\ Settled(calls[i])
        /\ WALog(calls[i]) = <<"r", "f">>
        /\ Get(heap[calls[i].w].wa, ROOT) = <<>>

---------------------------------------------------------------------------
(* C13 *)

\* C13: when a creation of a known type T is done, every container adjuster
\* that a wiring adjuster invoked by the call supplied for an ancestor of T
\* has been applied, whether T was known before that wiring adjuster ran or
\* became known through wiring that a later wiring adjuster supplied.
C13_SuppliedReachesDescendants ==
    \A i \in 1..Len(calls) : \A q \in {"f", "g", "h"} : \A s \in {"x", "y", "z"} :
        LET c == calls[i]
        IN  ( /\ c.pc = "done"
              /\ q \in Elems(WALog(c))
              /\ \E A \in Types : <<A, s>> \in SuppliedBy(q) /\ StartsWithDot(c.t, A) )
            => s \in Elems(CALog(c))

---------------------------------------------------------------------------
(* C14 *)

\* the base wiring adjuster that the wiring added by q registers
Nested(q) == IF q = "m" THEN "n" ELSE IF q = "n" THEN "f" ELSE NOFN

\* a wiring adjuster is in flight or pending in the base expansion of call c
InBaseExpansion(c) == c.ph = "base" /\ c.pc \in {"new", "wa"}

\* C14: base wiring adjusters are expanded recursively before any container
\* adjuster is invoked: once the base expansion of a call is over, the base
\* wiring adjuster registered by the wiring that an invoked adjuster added
\* has been invoked too, at any depth; no container adjuster is invoked
\* during the expansion; and a createContainer(T) for a T the innermost
\* adjuster adjusts is not rejected as unknown and, when done, has applied
\* the container adjuster supplied for T, also when nothing else made T known.
C14_NestedBaseExpansion ==
    \A i \in 1..Len(calls) :
        LET c == calls[i]
        IN  /\ InBaseExpansion(c) => CALog(c) = <<>>
            /\ ~InBaseExpansion(c) =>
                  \A q \in {"m", "n"} :
                      q \in Elems(WALog(c)) => Nested(q) \in Elems(WALog(c))
            /\ ("f" \in Elems(WALog(c)) /\ c.t = TA) =>
                  /\ c.pc # "rejected"
                  /\ c.pc = "done" => "x" \in Elems(CALog(c))

---------------------------------------------------------------------------
(* C15 *)

\* the base expansion of call c is over
BaseExpanded(c) == ~(c.pc \in {"new", "gathered"} \/ (c.pc = "wa" /\ c.ph = "base"))

\* C15: createContainer(T) and createContainerFactory(T) reject with the
\* RangeError of an unknown type exactly when T is unknown to the working
\* wiring once the base wiring adjusters have run; no factory exists for an
\* unknown type; and a rejected call has invoked no container adjuster and no
\* after-adjuster (the base wiring adjusters only).
C15_UnknownTypeRejected ==
    \A i \in 1..Len(calls) :
        LET c == calls[i]
            known == Has(heap[c.w].ca, CKey(c.t))
        IN  /\ BaseExpanded(c) =>
                  (~known <=> (c.pc = "rejected" /\ c.err = "RangeError: unknown"))
            /\ c.pc = "factory" => known
            /\ c.via = "factory" => calls[c.parent].pc = "factory"
            /\ c.pc = "rejected" =>
                  /\ CALog(c) = <<>>
                  /\ \A n \in 1..Len(c.log) : c.log[n].ctr = 0

\* A.B is unknown to a wiring whose base wiring adjuster f makes A known:
\* createContainer('A.B') and createContainerFactory('A.B') were both rejected
\* after f had run, with after-adjuster h of A never called, and a factory
\* for A was returned
C15_Witness ==
    /\ regs = <<OpBW("f"), OpWA(TA, "h")>>
    /\ Len(calls) = 3
    /\ calls[1].kind = "container" /\ calls[1].t = TAB
    /\ calls[1].pc = "rejected" /\ calls[1].err = "RangeError: unknown"
    /\ WALog(calls[1]) = <<"f">>
    /\ calls[2].kind = "factory" /\ calls[2].t = TAB
    /\ calls[2].pc = "rejected" /\ WALog(calls[2]) = <<"f">>
    /\ calls[3].kind = "factory" /\ calls[3].t = TA /\ calls[3].pc = "factory"

---------------------------------------------------------------------------
(* C16 *)

\* the recorded builder call r was made with an invalid argument
InvalidArgument(r) ==
    CASE r.op \in {"ac", "wa"} -> ~IsValidContainerType(r.t) \/ ~IsFunction(r.fn)
      [] r.op = "bw" -> ~IsFunction(r.fn)
      [] r.op \in {"aw", "import"} -> r.lib \notin Libs

\* the recorded builder calls rs without those made with an invalid argument
RECURSIVE WithoutInvalid(_)
WithoutInvalid(rs) ==
    IF rs = <<>> THEN <<>>
    ELSE (IF InvalidArgument(Head(rs)) THEN <<>>
          ELSE <<[op |-> Head(rs).op, t |-> Head(rs).t,
                  fn |-> Head(rs).fn, lib |-> Head(rs).lib]>>)
         \o WithoutInvalid(Tail(rs))

\* C16: every builder call made with an invalid argument (a container type
\* that is not a non-empty string or starts or ends with a dot, an adjuster
\* that is not a function, a value that is not a Wiring given to the
\* constructor or to addWiring) throws a TypeError, and the builder's wiring
\* and every wiring built are what the calls with valid arguments alone make.
C16_InvalidArgumentThrows ==
    /\ \A j \in 1..Len(regs) : InvalidArgument(regs[j]) => regs[j].threw
    /\ builder # 0 => heap[builder] = Replay(WithoutInvalid(regs))
    /\ \A b \in 1..Len(built) :
          heap[built[b]] = WiringCopy(Replay(WithoutInvalid(SubSeq(regs, 1, builtAt[b]))))

---------------------------------------------------------------------------
(* C17 *)

\* C17: createContainer and createContainerFactory given no container type
\* or an invalid one reject with a TypeError before the wiring is cloned and
\* before any base wiring adjuster is invoked: the call has no working
\* wiring, has invoked nothing, and its step allocates no Wiring.
C17_InvalidTypeRejectedFirst ==
    [][ \A i \in 1..Len(calls') :
            LET c == calls'[i]
            IN  ~IsValidContainerType(c.t) =>
                    /\ c.pc = "rejected"
                    /\ c.err = "TypeError: invalid container type"
                    /\ c.w = 0
                    /\ c.log = <<>>
                    /\ i > Len(calls) => heap' = heap
      ]_vars

\* on a wiring with base wiring adjuster f, createContainer('.A') and then
\* createContainerFactory('A.') were rejected with a TypeError; f was never
\* called and no Wiring was allocated since build()
C17_Witness ==
    /\ regs = <<OpBW("f"), OpAC(TA, "a")>>
    /\ Len(calls) = 2
    /\ calls[1].kind = "container" /\ calls[1].t = <<"", "A">>
    /\ calls[2].kind = "factory" /\ calls[2].t = <<"A", "">>
    /\ \A i \in {1, 2} :
          /\ calls[i].pc = "rejected"
          /\ calls[i].err = "TypeError: invalid container type"
          /\ calls[i].log = <<>>
    /\ Len(heap) = built[1]

---------------------------------------------------------------------------
(* C18 *)

\* C18: when an adjuster of a creation call throws or rejects, the call
\* rejects with that error and stays rejected: it returns no container and no
\* factory, so nothing is created through it; the failed adjuster is the last
\* one the call ever invokes, invoked once (no retry); and when it was a
\* container adjuster, no after-adjuster was invoked.
C18_AdjusterFailureAborts ==
    [][ \A i \in 1..Len(calls) :
            LET c == calls[i]
                d == calls'[i]
            IN  /\ (c.pc \in {"wa", "ca"} /\ d.pc = "rejected") =>
                      /\ d.err = ErrorOf(LastInvoked(c))
                      /\ d.log = c.log
                /\ d.err # "" => d.pc = "rejected"
                /\ c.pc = "rejected" =>
                      /\ d = c
                      /\ \A j \in 1..Len(calls') : calls'[j].parent # i
                /\ (d.pc = "rejected" /\ d.err \in Fns) =>
                      /\ Count(FnsOf(d.log), d.err) = 1
                      /\ d.log[Len(d.log)].k = "ca" =>
                            \A n \in 1..Len(d.log) : d.log[n].ctr \in {0, i} /\
                                (d.log[n].k = "wa" => d.log[n].ctr = 0)
      ]_vars

\* container adjuster a threw: the creation was rejected with its error, and
\* neither container adjuster b nor after-adjuster g was invoked; a second
\* creation from the same wiring then ran a, b and g to the end
C18_Witness ==
    /\ regs = <<OpAC(TA, "a"), OpAC(TA, "b"), OpWA(TA, "g")>>
    /\ Len(calls) = 2
    /\ calls[1].pc = "rejected" /\ calls[1].err = ErrorOf("a")
    /\ FnsOf(calls[1].log) = <<"a">>
    /\ calls[2].pc = "done"
    /\ FnsOf(calls[2].log) = <<"a", "b", "g">>

---------------------------------------------------------------------------
(* C19 *)

\* C19: within one creation call adjusters never overlap: at every moment at
\* most one adjuster of the call is in flight, it is the one invoked last
\* (every adjuster invoked before it has settled), and a settled call has
\* none in flight.
C19_OneAdjusterInFlight ==
    \A i \in 1..Len(calls) :
        LET c == calls[i]
        IN  /\ Cardinality(c.inflight) <= 1
            /\ c.pc \in {"wa", "ca"} => c.inflight = {LastInvoked(c)}
            /\ c.pc \notin {"wa", "ca"} => c.inflight = {}

\* the fourth adjuster of a creation is in flight: base wiring adjuster f and
\* container adjusters x and a have settled, b is being awaited
C19_Witness ==
    \E i \in 1..Len(calls) :
        /\ regs = <<OpBW("f"), OpAC(TA, "a"), OpAC(TA, "b")>>
        /\ FnsOf(calls[i].log) = <<"f", "x", "a", "b">>
        /\ calls[i].pc = "ca"
        /\ calls[i].inflight = {"b"}

---------------------------------------------------------------------------
(* C20 *)

\* the phase an invocation belongs to: 1 base wiring adjuster, 2 container
\* adjuster, 3 after-adjuster
PhaseOf(e) == IF e.k = "ca" THEN 2 ELSE IF e.ctr = 0 THEN 1 ELSE 3

\* the wiring adjusters still pending under key k of the working wiring of c
Pending(c, k) == IF Has(heap[c.w].wa, k) THEN Get(heap[c.w].wa, k) ELSE <<>>

\* C20: every creation call goes through expand-base, type check, apply,
\* expand-after and return in that order: its invocations are base wiring
\* adjusters, then container adjusters, then after-adjusters given its own
\* container; while a container adjuster runs no base wiring adjuster is
\* pending; while an after-adjuster runs no container adjuster is left to
\* apply; and when the container is returned no container adjuster and no
\* after-adjuster of its type is left.
C20_PhasesInOrder ==
    \A i \in 1..Len(calls) :
        LET c == calls[i]
        IN  /\ \A m, n \in 1..Len(c.log) :
                  m < n => PhaseOf(c.log[m]) <= PhaseOf(c.log[n])
            /\ \A n \in 1..Len(c.log) : c.log[n].ctr \in {0, i}
            /\ c.pc = "ca" => Pending(c, ROOT) = <<>>
            /\ (c.pc = "wa" /\ c.ph = "after") => c.flat = <<>>
            /\ c.pc = "done" =>
                  /\ c.flat = <<>>
                  /\ Pending(c, c.t) = <<>>
            /\ c.pc = "factory" => (Pending(c, ROOT) = <<>> /\ CALog(c) = <<>>)

\* a creation returned its container after base wiring adjuster f, then the
\* container adjusters x (supplied by f) and a, then after-adjuster g
C20_Witness ==
    \E i \in 1..Len(calls) :
        /\ regs = <<OpBW("f"), OpAC(TA, "a"), OpWA(TA, "g")>>
        /\ calls[i].pc = "done"
        /\ calls[i].log = <<WAEvent("f", 0), CAEvent("x", <<>>, i),
                            CAEvent("a", <<>>, i), WAEvent("g", i)>>

---------------------------------------------------------------------------
(* C21 *)

\* C21: an after-adjuster q registered with adjustWiringAfter(A, q) (and in
\* no other way) has been invoked once, with the container of the call, when
\* a creation of type A or of a known descendant of A is done, whether the
\* descendant became known before or after the registration of q; and a
\* creation of any other type never invokes it.
C21_AfterAdjusterAndDescendants ==
    \A i \in 1..Len(calls) : \A q \in {"f", "g"} :
        LET c == calls[i]
            rs == RegsOf(c.src)
            after == {j \in 1..Len(rs) : rs[j].op = "wa" /\ rs[j].fn = q}
            covers == \E j \in after : IsSelfOrAncestor(rs[j].t, c.t)
        IN  after # {} =>
                /\ (c.pc = "done" /\ covers) =>
                      /\ Count(WALog(c), q) = 1
                      /\ \E n \in 1..Len(c.log) : c.log[n] = WAEvent(q, i)
                /\ ~covers => q \notin Elems(WALog(c))

\* f was registered after A before A.B became known (through the wiring that
\* base wiring adjuster h supplies): the creation of A.B applied z and then
\* invoked f with its container
C21_Witness ==
    \E i \in 1..Len(calls) :
        /\ regs = <<OpWA(TA, "f"), OpBW("h")>>
        /\ calls[i].t = TAB
        /\ calls[i].pc = "done"
        /\ calls[i].log = <<WAEvent("h", 0), CAEvent("z", <<>>, i), WAEvent("f", i)>>

---------------------------------------------------------------------------
(* C22 *)

\* C22: the container adjusters registered for A.B only (b directly, z with
\* added wiring or with the wiring a base wiring adjuster supplies) are never
\* invoked by a creation of the ancestor type A, of the sibling type A.C or
\* of any other type that A.B is not an ancestor of.
C22_ChildAdjusterStaysBelow ==
    \A i \in 1..Len(calls) :
        ~IsSelfOrAncestor(TAB, calls[i].t) =>
            Elems(CALog(calls[i])) \cap {"b", "z"} = {}

\* A.B has b and, through the wiring supplied by h, z; the creation of the
\* sibling A.C, which has its own adjuster a, is done
C22_Witness ==
    \E i \in 1..Len(calls) :
        /\ regs = <<OpAC(TAB, "b"), OpBW("h"), OpAC(TAC, "a")>>
        /\ calls[i].t = TAC
        /\ calls[i].pc = "done"
        /\ calls[i].log = <<WAEvent("h", 0), CAEvent("a", <<>>, i)>>

---------------------------------------------------------------------------
(* C23 *)

\* the arguments that the caller of call i passed: the values 10 * i + j
FromCaller(args, i) == SelectSeq(args, LAMBDA v : v \div 10 = i)

\* C23: a container adjuster invoked by a createContainer call receives the
\* container of the call and then the arguments of the caller, in their
\* order; one invoked by a call of a factory receives the container, then
\* the arguments given to createContainerFactory, then those given to the
\* factory; a base wiring adjuster receives no context (the container slot
\* of its invocation is empty).
C23_ArgumentsPassed ==
    \A i \in 1..Len(calls) : \A n \in 1..Len(calls[i].log) :
        LET c == calls[i]
            e == c.log[n]
            own == FromCaller(e.args, i)
        IN  /\ (e.k = "ca" /\ c.via # "factory") =>
                  /\ e.ctr = i
                  /\ e.args = own
                  /\ own = GivenArgs(i, Len(own))
            /\ (e.k = "ca" /\ c.via = "factory") =>
                  LET fromFactory == FromCaller(e.args, c.parent)
                  IN  /\ e.ctr = i
                      /\ e.args = fromFactory \o own
                      /\ fromFactory = GivenArgs(c.parent, Len(fromFactory))
                      /\ fromFactory = calls[c.parent].args
                      /\ own = GivenArgs(i, Len(own))
            /\ (e.k = "wa" /\ c.ph = "base") => (e.ctr = 0 /\ e.args = <<>>)

\* createContainerFactory('A', 11, 12) and then factory(21, 22): adjuster a
\* received (container, 11, 12, 21, 22)
C23_Witness ==
    /\ Len(calls) = 2
    /\ calls[1].kind = "factory"
    /\ calls[2].via = "factory"
    /\ calls[2].pc = "done"
    /\ \E n \in 1..Len(calls[2].log) :
          calls[2].log[n] = CAEvent("a", <<11, 12, 21, 22>>, 2)

---------------------------------------------------------------------------
(* C24 *)

\* the class of the wiring the builder imported (Wiring when it imported none)
ImportedClass ==
    IF regs # <<>> /\ regs[1].op = "import" THEN heap[regs[1].lib].cls
    ELSE "Wiring"

\* the call is past its first container adjuster, or has returned its container
HasContainer(c) == c.pc = "done" \/ CALog(c) # <<>>

\* C24: the 'wiring' bean of a container is in place when its first container
\* adjuster runs and when it is returned; it is the working clone of that
\* creation alone: not the Wiring the call was made on (for a call of a
\* factory: neither the Wiring createContainerFactory was called on nor the
\* wiring the factory holds), not the bean of another container; and it is
\* of the class of the wiring the call was made on.  The wiring of the
\* builder and the built wiring are of the class of the imported wiring.
C24_WiringBean ==
    /\ builder # 0 => heap[builder].cls = ImportedClass
    /\ \A b \in 1..Len(built) : heap[built[b]].cls = ImportedClass
    /\ \A i \in 1..Len(calls) :
          LET c == calls[i]
          IN  (c.kind = "container" /\ HasContainer(c)) =>
                  /\ c.w \in 1..Len(heap)
                  /\ c.w # c.src
                  /\ c.w \notin {built[b] : b \in 1..Len(built)}
                  /\ c.via = "factory" => c.w \notin {calls[c.parent].w, calls[c.parent].src}
                  /\ \A j \in 1..Len(calls) : j # i => calls[j].w # c.w
                  /\ heap[c.w].cls = heap[c.src].cls
                  /\ heap[c.w].cls = ImportedClass

\* a SubclassedWiring was imported, the wiring built, a factory made and
\* called: the container it returned has a bean of class SubclassedWiring
C24_Witness ==
    /\ ImportedClass = "SubclassedWiring"
    /\ \E i \in 1..Len(calls) :
          /\ calls[i].via = "factory"
          /\ calls[i].pc = "done"
          /\ CALog(calls[i]) # <<>>
          /\ heap[calls[i].w].cls = "SubclassedWiring"

---------------------------------------------------------------------------
(* C25 *)

\* the position of the first occurrence of x in seq (0: none)
FirstAt(seq, x) ==
    IF \E n \in 1..Len(seq) : seq[n] = x
    THEN CHOOSE n \in 1..Len(seq) : seq[n] = x /\ \A m \in 1..(n - 1) : seq[m] # x
    ELSE 0

\* a done creation of A.B by a wiring in which a is registered for A and b
\* for A.B
BothRegistered(c) ==
    /\ c.t = TAB
    /\ c.pc = "done"
    /\ FirstAt(RegsOf(c.src), OpAC(TA, "a")) > 0
    /\ FirstAt(RegsOf(c.src), OpAC(TAB, "b")) > 0

\* C25 as stated: when A.B is created, the adjuster a registered for A is
\* applied ahead of the adjuster b registered for A.B, whichever of the two
\* was registered first.
C25_ParentAlwaysFirst ==
    \A i \in 1..Len(calls) :
        BothRegistered(calls[i]) =>
            /\ FirstAt(CALog(calls[i]), "a") > 0
            /\ FirstAt(CALog(calls[i]), "a") < FirstAt(CALog(calls[i]), "b")

\* C25, amended: when A.B is created, the adjuster a registered for A and the
\* adjuster b registered for A.B are both applied, in the order of their
\* first registration: a ahead of b exactly when a was registered first.
C25_ParentAndChildInRegistrationOrder ==
    \A i \in 1..Len(calls) :
        LET c == calls[i]
            rs == RegsOf(c.src)
        IN  BothRegistered(c) =>
                /\ FirstAt(CALog(c), "a") > 0
                /\ FirstAt(CALog(c), "b") > 0
                /\ (FirstAt(CALog(c), "a") < FirstAt(CALog(c), "b"))
                     <=> (FirstAt(rs, OpAC(TA, "a")) < FirstAt(rs, OpAC(TAB, "b")))

\* b was registered for A.B first and a for A second: the creation of A.B
\* applied b and then a
C25_Witness ==
    \E i \in 1..Len(calls) :
        /\ regs = <<OpAC(TAB, "b"), OpAC(TA, "a")>>
        /\ BothRegistered(calls[i])
        /\ CALog(calls[i]) = <<"b", "a">>

---------------------------------------------------------------------------
(* C26 *)

\* call i is at the point where its wiring adjuster, which catches nothing,
\* passes a value that is not a Wiring to addWiring
PassesInvalidWiring(i) ==
    /\ calls[i].pc = "wa"
    /\ calls[i].todo # <<>>
    /\ ~IsWiring(heap, Head(calls[i].todo))
    /\ ~Catches(calls[i].cur)

\* C26: when a wiring adjuster that does not catch passes a value that is
\* not a Wiring to its addWiring callback, the callback throws at that call
\* (nothing is added to the wiring, no further adjuster is invoked) and the
\* enclosing createContainer or createContainerFactory call rejects with
\* that TypeError; a call rejected with it stays rejected: it returns no
\* container and no factory.
C26_InvalidWiringToCallback ==
    [][\A i \in 1..Len(calls) :
          /\ PassesInvalidWiring(i) =>
                /\ heap' = heap
                /\ calls'[i].pc = "rejected"
                /\ calls'[i].err = InvalidWiringError
                /\ calls'[i].log = calls[i].log
                /\ calls'[i].inflight = {}
          /\ calls[i].err = InvalidWiringError =>
                (calls[i].pc = "rejected" /\ calls'[i] = calls[i])]_vars

\* after-adjuster v of type A passed lib wiring 1 and then the string
\* 'faulty': the creation of A applied a, invoked v and was rejected with the
\* TypeError of the callback
C26_Witness ==
    \E i \in 1..Len(calls) :
        /\ regs = <<OpAC(TA, "a"), OpWA(TA, "v")>>
        /\ calls[i].pc = "rejected"
        /\ calls[i].err = InvalidWiringError
        /\ calls[i].log = <<CAEvent("a", <<>>, i), WAEvent("v", i)>>
        /\ calls[i].todo = <<Faulty>>

---------------------------------------------------------------------------
(* C27 *)

\* how many times the built-in populators are filed for Boot and for App in
\* the registry of wiring r
TimesFiled(r) ==
    Count(Get(heap[r].ca, CKey(TBoot)), "_populateBootContainer")
        + Count(Get(heap[r].ca, CKey(TApp)), "_populateAppContainer")

\* C27: however many StructuredWiringBuilder instances the wiring passed
\* through (constructor import, addWiring, wiring supplied by a base or an
\* after-boot wiring adjuster), a Boot container has _populateBootContainer
\* applied once and never _populateAppContainer, an App container has
\* _populateAppContainer applied once and never _populateBootContainer, and
\* no creation of these containers is rejected.
C27_PopulatorsOnce ==
    \A i \in 1..Len(calls) :
        LET c == calls[i]
            own == IF c.t = TBoot THEN "_populateBootContainer"
                   ELSE "_populateAppContainer"
            other == IF c.t = TBoot THEN "_populateAppContainer"
                     ELSE "_populateBootContainer"
        IN  /\ Count(CALog(c), own) <= 1
            /\ Count(CALog(c), other) = 0
            /\ ApplyEnded(c) => Count(CALog(c), own) = 1
            /\ c.pc # "rejected"

\* the wiring went through two StructuredWiringBuilder instances and had a
\* structured wiring added, so that each populator is filed three times; a
\* Boot container and its App container are done
C27_Witness ==
    \E i, j \in 1..Len(calls) :
        /\ Len(built) = 2
        /\ calls[i].t = TBoot /\ calls[i].pc = "done"
        /\ calls[i].src = built[2] /\ TimesFiled(built[2]) = 6
        /\ calls[j].t = TApp /\ calls[j].pc = "done" /\ calls[j].parent = i
        /\ Count(CALog(calls[j]), "_populateAppContainer") = 1

---------------------------------------------------------------------------
(* C28 *)

\* the container adjuster invocations of call c
CAEvents(c) == SelectSeq(c.log, IsCA)

---------------------------------------------------------------------------
(* C29 *)

\* j and k are ensuing creations through the 'wiring' bean of one container,
\* k started after j was done
Siblings(j, k) ==
    /\ j < k
    /\ calls[j].via = "ensuing" /\ calls[k].via = "ensuing"
    /\ calls[j].parent = calls[k].parent
    /\ calls[j].pc = "done" /\ calls[k].pc = "done"

\* C29 as stated: a wiring adjuster invoked during the creation of one
\* ensuing container is not invoked again during the creation of a sibling
\* ensuing container that is created later through the same 'wiring' bean.
C29_SiblingsShareWiring ==
    \A j, k \in 1..Len(calls) :
        Siblings(j, k) => Elems(WALog(calls[j])) \cap Elems(WALog(calls[k])) = {}

\* C29, amended: every ensuing creation works on its own copy of the
\* creator's working wiring, taken when the creation starts, and the wiring
\* behind the 'wiring' bean is not changed by it: sibling ensuing containers
\* of one type created through one 'wiring' bean have the same adjusters
\* invoked, so a wiring adjuster first resolved during the creation of one
\* of them is invoked again for the next; only adjusters that the creator's
\* own creation invoked are seen as resolved by all of them.
C29_SiblingsWorkOnCopies ==
    \A j, k \in 1..Len(calls) :
        Siblings(j, k) =>
            /\ calls[j].w # calls[k].w
            /\ calls[j].w # calls[j].src /\ calls[k].w # calls[k].src
            /\ calls[j].src = calls[calls[j].parent].w
            /\ calls[j].t = calls[k].t => Trace(calls[j]) = Trace(calls[k])
            /\ Elems(WALog(calls[calls[j].parent]))
                   \cap (Elems(WALog(calls[j])) \cup Elems(WALog(calls[k]))) = {}

\* after-adjuster g of P and after-adjuster f of A: a P container was
\* created, and two A containers through its 'wiring' bean; each of the two
\* creations invoked f
C29_Witness ==
    /\ regs = <<OpWA(TP, "g"), OpWA(TA, "f")>>
    /\ Len(calls) = 3
    /\ calls[1].t = TP /\ WALog(calls[1]) = <<"g">>
    /\ Siblings(2, 3)
    /\ calls[2].parent = 1
    /\ calls[2].t = TA /\ WALog(calls[2]) = <<"f">>
    /\ calls[3].t = TA /\ WALog(calls[3]) = <<"f">>

---------------------------------------------------------------------------
(* C30 *)

\* the wiring adjuster functions that wiring r knows: the keys of its
\* resolution map
WiringAdjustersOf(r) == {f \in Fns : heap[r].sup[f] # UNDEF}

\* some call is inside a consume loop, awaiting a wiring adjuster
InConsumeLoop == \E i \in 1..Len(calls) : calls[i].pc = "wa"

\* C30: every invocation of a wiring adjuster settling, a creation never
\* makes more invocations of wiring adjusters than its working wiring knows
\* wiring adjuster functions, and every consume loop that is entered (of
\* base expansion, of after expansion) is left, also when the supplied
\* wiring registers the adjuster that supplies it (r) or when two adjusters
\* supply each other (p and q).
C30_ExpansionTerminates ==
    /\ [](\A i \in 1..Len(calls) :
              Len(WALog(calls[i])) <= Cardinality(WiringAdjustersOf(calls[i].w)))
    /\ InConsumeLoop ~> ~InConsumeLoop

\* base wiring adjusters r and p: r was invoked and its supplied wiring
\* registered r again, with f; p was invoked and its supplied wiring
\* registered q, whose supplied wiring registered p again; the base
\* expansion ended with every list consumed and the factory was returned
C30_Witness ==
    \E i \in 1..Len(calls) :
        /\ regs = <<OpBW("r"), OpBW("p")>>
        /\ calls[i].kind = "factory"
        /\ Settled(calls[i])
        /\ Elems(WALog(calls[i])) = {"r", "f", "p", "q"}
        /\ Get(heap[calls[i].w].wa, ROOT) = <<>>

---------------------------------------------------------------------------
(* SpecLate: after-adjusters whose wiring registers base wiring adjusters:  *)
(* n adds wiring that registers f, m adds wiring that registers n; one      *)
(* build, then independent and ensuing creations, one at a time             *)

MaxOpsLate == 2      \* builder calls, in SpecLate
MaxCallsLate == 3    \* creation calls, in SpecLate

LateOps == {OpAC(TA, "a"), OpWA(TA, "n"), OpWA(TA, "m"), OpBW("n"), OpBW("h")}

NextLate ==
    \/ NewBuilder(0)
    \/ \E op \in LateOps : built = <<>> /\ BuilderCall(op, MaxOpsLate)
    \/ built = <<>> /\ Build(1)
    \/ Len(calls) < MaxCallsLate /\ AllSettled /\ CreateContainer(TA, <<>>)
    \/ Len(calls) < MaxCallsLate /\ AllSettled /\ CreateEnsuingContainer(TA, <<>>)
    \/ \E i \in 1..Len(calls) : AddWiringStep(i)
    \/ \E i \in 1..Len(calls) : WiringAdjusterReturns(i)
    \/ \E i \in 1..Len(calls) : BaseGathered(i)
    \/ \E i \in 1..Len(calls) : ContainerAdjusterReturns(i)

SpecLate == Init /\ [][NextLate]_vars

---------------------------------------------------------------------------
(* C31 *)

\* the base wiring adjusters registered in the wirings that the wiring
\* adjuster q passes to addWiring
BaseAdjustersIn(q) ==
    UNION {Elems(Get(LibHeap[l].wa, ROOT)) :
              l \in {v \in Elems(Supplies(q)) : v \in Libs /\ Has(LibHeap[v].wa, ROOT)}}

\* the base wiring adjusters that call c was supplied with by an after-adjuster
\* and that were unknown to the wiring the call started from
SuppliedLate(c) ==
    {f \in Fns : /\ heap[c.src].sup[f] = UNDEF
                 /\ \E n \in 1..Len(c.log) :
                       /\ c.log[n].k = "wa"
                       /\ c.log[n].ctr # 0
                       /\ f \in BaseAdjustersIn(c.log[n].fn)}

\* call c has left the consume loop of its base wiring adjusters
PastBaseLoop(c) == c.pc # "new" /\ ~(c.pc = "wa" /\ c.ph = "base")

\* C31: a base wiring adjuster f that first becomes known through wiring
\* supplied by an after-adjuster of a creation is not invoked after that in
\* the same creation; every ensuing creation made from the container of that
\* creation invokes f in its base expansion, ahead of every container
\* adjuster; and an independent creation from the built wiring, which does
\* not know f and is not supplied with f during its base expansion, never
\* invokes f.
C31_LateBaseAdjuster ==
    \A i \in 1..Len(calls) :
        LET c == calls[i]
        IN  /\ c.w # 0 =>
                \A f \in SuppliedLate(c) :
                    \A n \in 1..Len(c.log) :
                        (c.log[n].k = "wa" /\ c.log[n].ctr # 0
                            /\ f \in BaseAdjustersIn(c.log[n].fn))
                        => \A m \in (n + 1)..Len(c.log) : c.log[m].fn # f
            /\ (c.via = "ensuing" /\ c.w # 0 /\ PastBaseLoop(c)) =>
                \A f \in SuppliedLate(calls[c.parent]) :
                    f \notin Elems(WALog(calls[c.parent])) =>
                        \E n \in 1..Len(c.log) :
                            /\ c.log[n] = WAEvent(f, 0)
                            /\ \A m \in 1..n : c.log[m].k = "wa"
            /\ (c.via = "direct" /\ c.w # 0) =>
                \A f \in Fns :
                    (/\ heap[c.src].sup[f] = UNDEF
                     /\ \A n \in 1..Len(c.log) :
                           (c.log[n].k = "wa" /\ c.log[n].ctr = 0)
                               => f \notin BaseAdjustersIn(c.log[n].fn))
                    => f \notin Elems(WALog(c))

\* after-adjuster n of A supplied base wiring adjuster f in an independent
\* creation, which did not invoke f; the ensuing creation invoked f first and
\* applied what f supplies; a second independent creation invoked n again and
\* not f
C31_Witness ==
    /\ Len(calls) = 3
    /\ regs = <<OpWA(TA, "n")>>
    /\ calls[1].via = "direct" /\ calls[1].pc = "done"
    /\ WALog(calls[1]) = <<"n">>
    /\ calls[2].via = "ensuing" /\ calls[2].pc = "done"
    /\ calls[2].log = <<WAEvent("f", 0), CAEvent("x", <<>>, 2)>>
    /\ calls[3].via = "direct" /\ calls[3].pc = "done"
    /\ WALog(calls[3]) = <<"n">>

---------------------------------------------------------------------------
(* SpecGrow: after-adjusters whose wiring registers after-adjusters: p adds *)
(* wiring that registers g after A, q adds wiring that registers h after    *)
(* A.B; one build, then independent and ensuing creations of A and A.B      *)

MaxOpsGrow == 2      \* builder calls, in SpecGrow
MaxCallsGrow == 2    \* creation calls, in SpecGrow

\* the builder calls that made the wirings which p and q pass to addWiring,
\* in SpecGrow
GrowLibRegs == << <<OpWA(TA, "g")>>, <<OpWA(TAB, "h")>> >>

InitGrow ==
    /\ heap = LibHeap \o [i \in 1..Len(GrowLibRegs) |->
                             WiringCopy(RunProgram(<<>>, EmptyWiring("Wiring"),
                                                   GrowLibRegs[i]))]
    /\ builder = 0
    /\ nops = 0
    /\ regs = <<>>
    /\ built = <<>>
    /\ builtAt = <<>>
    /\ calls = <<>>

GrowOps ==
    {OpWA(TAB, "p"), OpWA(TA, "p"), OpWA(TAB, "q"), OpAC(TAB, "b"), OpBW("g")}

NextGrow ==
    \/ NewBuilder(0)
    \/ \E op \in GrowOps : built = <<>> /\ BuilderCall(op, MaxOpsGrow)
    \/ built = <<>> /\ Build(1)
    \/ \E t \in Types :
          Len(calls) < MaxCallsGrow /\ AllSettled /\ CreateContainer(t, <<>>)
    \/ \E t \in Types :
          Len(calls) < MaxCallsGrow /\ AllSettled /\ CreateEnsuingContainer(t, <<>>)
    \/ \E i \in 1..Len(calls) : AddWiringStep(i)
    \/ \E i \in 1..Len(calls) : WiringAdjusterReturns(i)
    \/ \E i \in 1..Len(calls) : BaseGathered(i)
    \/ \E i \in 1..Len(calls) : ContainerAdjusterReturns(i)

SpecGrow == InitGrow /\ [][NextGrow]_vars

---------------------------------------------------------------------------
(* C32 *)

\* the wirings that the wiring adjuster q passes to addWiring
WiringsFrom(q) == {v \in Elems(Supplies(q)) : IsWiring(heap, v)}

\* f is registered as an after-adjuster for T or an ancestor of T in a wiring
\* that q passes to addWiring
IsAfterAdjusterIn(f, q, T) ==
    \E l \in WiringsFrom(q) : \E n \in 1..Len(heap[l].wa) :
        /\ heap[l].wa[n].k # ROOT
        /\ IsSelfOrAncestor(heap[l].wa[n].k, T)
        /\ \E j \in 1..Len(heap[l].wa[n].l) : heap[l].wa[n].l[j] = f

\* the container adjusters for T or an ancestor of T registered in the
\* wirings that f passes to addWiring
ContainerAdjustersIn(f, T) ==
    {x \in Fns : \E l \in WiringsFrom(f) : \E n \in 1..Len(heap[l].ca) :
        /\ heap[l].ca[n].k # ROOT
        /\ IsSelfOrAncestor(heap[l].ca[n].k, CKey(T))
        /\ heap[l].sup[x] = UNDEF
        /\ \E j \in 1..Len(heap[l].ca[n].l) : heap[l].ca[n].l[j] = x}

\* the after-adjusters that became known to call c (number i) through wiring
\* supplied during its after-expansion
GrownAfter(c, i) ==
    {f \in Fns : /\ heap[c.src].sup[f] = UNDEF
                 /\ \E n \in 1..Len(c.log) :
                       /\ c.log[n].k = "wa"
                       /\ c.log[n].ctr = i
                       /\ IsAfterAdjusterIn(f, c.log[n].fn, c.t)}

\* C32: an after-adjuster f for T or an ancestor of T that becomes known
\* through wiring supplied during the after-expansion of a container of type T
\* has been invoked with that container when the creation call is done; no
\* container adjuster is applied to that container after f was invoked; and
\* a done ensuing creation of type T from that container has applied the
\* container adjusters that f supplies for T.
C32_GrownAfterAdjuster ==
    \A i \in 1..Len(calls) :
        LET c == calls[i]
        IN  /\ (c.w # 0 /\ c.pc = "done") =>
                \A f \in GrownAfter(c, i) :
                    \E m \in 1..Len(c.log) :
                        /\ c.log[m] = WAEvent(f, i)
                        /\ \A k \in m..Len(c.log) : c.log[k].k = "wa"
            /\ (c.via = "ensuing" /\ c.pc = "done" /\ c.t = calls[c.parent].t) =>
                \A f \in GrownAfter(calls[c.parent], c.parent) :
                    \A x \in ContainerAdjustersIn(f, c.t) : x \in Elems(CALog(c))

\* after-adjuster p of A.B supplied after-adjuster g of A in the creation of
\* A.B, which invoked g before it returned and did not apply what g supplies;
\* the ensuing creation of A.B applied it
C32_Witness ==
    /\ Len(calls) = 2
    /\ regs = <<OpAC(TAB, "b"), OpWA(TAB, "p")>>
    /\ calls[1].via = "direct" /\ calls[1].t = TAB /\ calls[1].pc = "done"
    /\ calls[1].log = <<CAEvent("b", <<>>, 1), WAEvent("p", 1), WAEvent("g", 1)>>
    /\ calls[2].via = "ensuing" /\ calls[2].t = TAB /\ calls[2].pc = "done"
    /\ CALog(calls[2]) = <<"b", "y">>

---------------------------------------------------------------------------
(* C33 *)

\* an adjustContainer call of rs names the type T itself
Named(rs, T) == \E j \in 1..Len(rs) : rs[j].op = "ac" /\ rs[j].t = T

\* an adjustContainer call of rs names T, an ancestor of T or a descendant of T
Related(rs, T) ==
    \E j \in 1..Len(rs) :
        rs[j].op = "ac" /\ (IsSelfOrAncestor(rs[j].t, T) \/ IsSelfOrAncestor(T, rs[j].t))

UnknownType(c) == c.pc = "rejected" /\ c.err = "RangeError: unknown"

\* C33 as stated: createContainer(T) is not rejected as unknown when T is
\* registered or is an ancestor or a descendant of a registered type.
C33_RelatedTypeIsKnown ==
    \A i \in 1..Len(calls) :
        Related(RegsOf(calls[i].src), calls[i].t) => ~UnknownType(calls[i])

\* C33, amended: createContainer(T) on a wiring built from adjustContainer
\* calls is rejected as unknown exactly when no call named T itself; a type
\* that is only an ancestor or a descendant of the registered types is
\* unknown.
C33_OnlyNamedTypeIsKnown ==
    \A i \in 1..Len(calls) :
        LET c == calls[i]
        IN  BaseExpanded(c) => (UnknownType(c) <=> ~Named(RegsOf(c.src), c.t))

\* with A and A.B.C registered, createContainer('A.B') was rejected as unknown
C33_Witness ==
    /\ regs = <<OpAC(TA, "a"), OpAC(TABC, "b")>>
    /\ built # <<>>
    /\ Len(calls) = 1
    /\ calls[1].t = TAB
    /\ UnknownType(calls[1])

---------------------------------------------------------------------------
(* C34 *)

\* the builder calls rs introduce the type T by an adjustWiringAfter call that
\* names it, or by a base wiring adjuster that adds wiring which knows it
Introduced(rs, T) ==
    \E j \in 1..Len(rs) :
        \/ rs[j].op = "wa" /\ rs[j].t = T
        \/ /\ rs[j].op = "bw"
           /\ \E l \in WiringsFrom(rs[j].fn) : Has(heap[l].ca, CKey(T))

\* C34: a type T introduced by adjustWiringAfter(T, f), or by wiring that a
\* base wiring adjuster supplies, is known: createContainer(T) on the built
\* wiring is never rejected, it finds the type in its working wiring once the
\* base expansion is over, and it settles as done.
C34_IntroducedTypeIsKnown ==
    \A i \in 1..Len(calls) :
        LET c == calls[i]
        IN  (c.via = "direct" /\ Introduced(RegsOf(c.src), c.t)) =>
                /\ c.pc # "rejected"
                /\ BaseExpanded(c) => Has(heap[c.w].ca, CKey(c.t))
                /\ Settled(c) => c.pc = "done"

\* A.B is unknown to the built wiring, whose base wiring adjuster h adds
\* wiring that adjusts A.B: createContainer('A.B') invoked h, found the type
\* and applied z
C34_Witness ==
    /\ regs = <<OpBW("h")>>
    /\ Len(calls) = 1
    /\ ~Has(heap[calls[1].src].ca, CKey(TAB))
    /\ calls[1].t = TAB
    /\ calls[1].pc = "done"
    /\ calls[1].log = <<WAEvent("h", 0), CAEvent("z", <<>>, 1)>>

---------------------------------------------------------------------------
(* SpecDual: one function registered as a container adjuster and as a       *)
(* wiring adjuster, in the builder or through added wiring; one build, one  *)
(* creation                                                                 *)

MaxOpsDual == 3      \* builder calls, in SpecDual

DualOps ==
    {OpAC(TA, "f"), OpAC(TA, "a"), OpBW("f"), OpWA(TA, "f"), OpAW(4)}

NextDual ==
    \/ NewBuilder(0)
    \/ \E op \in DualOps : built = <<>> /\ BuilderCall(op, MaxOpsDual)
    \/ built = <<>> /\ Build(1)
    \/ calls = <<>> /\ CreateContainer(TA, <<>>)
    \/ \E i \in 1..Len(calls) : AddWiringStep(i)
    \/ \E i \in 1..Len(calls) : WiringAdjusterReturns(i)
    \/ \E i \in 1..Len(calls) : BaseGathered(i)
    \/ \E i \in 1..Len(calls) : ContainerAdjusterReturns(i)

SpecDual == Init /\ [][NextDual]_vars

---------------------------------------------------------------------------
(* C35 *)

\* the functions that the adjustContainer calls of rs register for T or an
\* ancestor of T
RegisteredFor(rs, T) == Elems(TargetingInOrder(rs, T))

\* C35 as stated: a done creation of T has invoked, as a container adjuster,
\* every function that adjustContainer registered for T, whether or not the
\* function is registered as a wiring adjuster too.
C35_ContainerAdjusterAlwaysInvoked ==
    \A i \in 1..Len(calls) :
        LET c == calls[i]
        IN  c.pc = "done" =>
                \A f \in RegisteredFor(RegsOf(c.src), c.t) : f \in Elems(CALog(c))

\* C35, amended: wiring adjusters and container adjusters share one identity
\* space. A done creation of T has invoked a function that adjustContainer
\* registered for T as a container adjuster exactly when the built wiring
\* does not hold the function as a wiring adjuster; a function that it holds
\* as a wiring adjuster is never invoked with a container as its first
\* argument.
C35_WiringAdjusterIsNeverContainerAdjuster ==
    \A i \in 1..Len(calls) :
        LET c == calls[i]
        IN  /\ c.pc = "done" =>
                \A f \in RegisteredFor(RegsOf(c.src), c.t) :
                    f \in Elems(CALog(c)) <=> heap[c.src].sup[f] = UNDEF
            /\ c.w # 0 =>
                \A f \in Elems(CALog(c)) : heap[c.src].sup[f] = UNDEF

\* f was registered with adjustContainer('A', f) and with adjustBaseWiring(f):
\* the creation of A called f as a wiring adjuster only and applied x, which
\* f supplies
C35_Witness ==
    /\ regs = <<OpAC(TA, "f"), OpBW("f")>>
    /\ Len(calls) = 1
    /\ calls[1].pc = "done"
    /\ calls[1].log = <<WAEvent("f", 0), CAEvent("x", <<>>, 1)>>

---------------------------------------------------------------------------
(* C36 *)

\* the functions that the adjustBaseWiring calls of rs register
BaseAdjustersOf(rs) == {rs[j].fn : j \in {n \in 1..Len(rs) : rs[n].op = "bw"}}

\* C36: a createContainerFactory call that has fulfilled has invoked every
\* base wiring adjuster of the built wiring once; no call of the returned
\* factory invokes any of them; and every createContainer call on the built
\* wiring has invoked each of them once when its base expansion is over.
C36_BaseAdjustersOncePerFactory ==
    \A i \in 1..Len(calls) :
        LET c == calls[i]
        IN  \A q \in BaseAdjustersOf(RegsOf(RootOf(i))) :
                /\ (c.kind = "factory" /\ c.pc = "factory")
                       => Count(WALog(c), q) = 1
                /\ c.via = "factory" => q \notin Elems(WALog(c))
                /\ (c.kind = "container" /\ c.via = "direct" /\ PastBaseLoop(c))
                       => Count(WALog(c), q) = 1

\* createContainerFactory('A') invoked base wiring adjuster f; a call of the
\* factory applied the x that f supplies without invoking f; a createContainer
\* call on the same built wiring invoked f itself
C36_Witness ==
    /\ regs = <<OpBW("f")>>
    /\ Len(calls) = 3
    /\ calls[1].kind = "factory" /\ calls[1].pc = "factory"
    /\ WALog(calls[1]) = <<"f">>
    /\ calls[2].via = "factory" /\ calls[2].parent = 1 /\ calls[2].pc = "done"
    /\ calls[2].log = <<CAEvent("x", <<>>, 2)>>
    /\ calls[3].kind = "container" /\ calls[3].via = "direct"
    /\ calls[3].pc = "done"
    /\ calls[3].log = <<WAEvent("f", 0), CAEvent("x", <<>>, 3)>>

---------------------------------------------------------------------------
(* SpecInflight: an after-adjuster that takes the 'wiring' bean of the      *)
(* container it was called with and creates an ensuing container before it  *)
(* has made all its addWiring calls; the two creations then run interleaved *)

MaxOpsInflight == 2    \* builder calls, in SpecInflight
MaxCallsInflight == 2  \* creation calls, in SpecInflight

\* container.get('wiring').createContainer(t, ...args) called by the
\* after-adjuster of call p that is in flight
CreateEnsuingContainerInFlight(t, args) ==
    \E p \in 1..Len(calls) :
        /\ calls[p].kind = "container"
        /\ calls[p].pc = "wa"
        /\ calls[p].ph = "after"
        /\ StartCall("container", calls[p].w, "ensuing", p, t, args)

InflightOps == {OpAC(TA, "a"), OpWA(TA, "f"), OpWA(TA, "g"), OpBW("h")}

NextInflight ==
    \/ NewBuilder(0)
    \/ \E op \in InflightOps : built = <<>> /\ BuilderCall(op, MaxOpsInflight)
    \/ built = <<>> /\ Build(1)
    \/ calls = <<>> /\ CreateContainer(TA, <<>>)
    \/ Len(calls) < MaxCallsInflight /\ CreateEnsuingContainerInFlight(TA, <<>>)
    \/ \E i \in 1..Len(calls) : AddWiringStep(i)
    \/ \E i \in 1..Len(calls) : WiringAdjusterReturns(i)
    \/ \E i \in 1..Len(calls) : BaseGathered(i)
    \/ \E i \in 1..Len(calls) : ContainerAdjusterReturns(i)

SpecInflight == Init /\ [][NextInflight]_vars

---------------------------------------------------------------------------
(* C37 *)

\* call c works on a clone and has not yet flattened the container adjusters
\* of its type
BeforeFlatten(c) == c.w # 0 /\ c.ph = "base" /\ c.pc \in {"wa", "gathered"}

\* the container adjusters that the creation c would apply if it flattened
\* the list of its type in heap h
WouldApply(h, c) ==
    IF Has(h[c.w].ca, CKey(c.t))
    THEN DedupFirst(_getFlattenedContainerAdjusters(h, c.w, CKey(c.t)))
    ELSE <<>>

\* C37: when a wiring was cloned through the 'wiring' bean while a wiring
\* adjuster of the source's creation was in flight, an addWiring call that
\* the adjuster makes after that leaves the container adjusters that the
\* clone's creation is going to apply as they were.
C37_CloneUnaffectedByInFlightAdjuster ==
    [][\A p \in 1..Len(calls) : \A j \in 1..Len(calls) :
          (/\ calls[j].via = "ensuing"
           /\ calls[j].parent = p
           /\ BeforeFlatten(calls[j])
           /\ AddWiringStep(p))
          => WouldApply(heap', calls[j]) = WouldApply(heap, calls[j])]_vars

---------------------------------------------------------------------------
(* SpecPending: wiring adjusters registered in the builder, through added   *)
(* wiring and through supplied wiring, as base and as after-adjusters; one  *)
(* build, then independent and ensuing creations, one at a time             *)

MaxOpsPending == 2     \* builder calls, in SpecPending
MaxCallsPending == 2   \* creation calls, in SpecPending

PendingOps ==
    {OpAC(TA, "a"), OpBW("f"), OpWA(TA, "g"), OpWA(TA, "n"), OpAW(4), OpAW(6)}

NextPending ==
    \/ NewBuilder(0)
    \/ \E op \in PendingOps : built = <<>> /\ BuilderCall(op, MaxOpsPending)
    \/ built = <<>> /\ Build(1)
    \/ Len(calls) < MaxCallsPending /\ AllSettled /\ CreateContainer(TA, <<>>)
    \/ Len(calls) < MaxCallsPending /\ AllSettled
          /\ CreateEnsuingContainer(TA, <<>>)
    \/ \E i \in 1..Len(calls) : AddWiringStep(i)
    \/ \E i \in 1..Len(calls) : WiringAdjusterReturns(i)
    \/ \E i \in 1..Len(calls) : BaseGathered(i)
    \/ \E i \in 1..Len(calls) : ContainerAdjusterReturns(i)

SpecPending == Init /\ [][NextPending]_vars

---------------------------------------------------------------------------
(* C38 *)

\* the functions in the wiring-adjuster lists of wiring r
PendingIn(r) ==
    UNION {Elems(heap[r].wa[n].l) : n \in 1..Len(heap[r].wa)}

\* the wiring adjusters invoked by call i and by the creations it descends from
RECURSIVE InvokedUpTo(_)
InvokedUpTo(i) ==
    Elems(WALog(calls[i]))
        \cup (IF calls[i].parent = 0 THEN {} ELSE InvokedUpTo(calls[i].parent))

\* container adjuster x reaches the creation c from somewhere else than the
\* wiring adjuster f: it is registered in the builder, or a wiring adjuster
\* that has supplied its wiring supplies it
OtherSource(i, f, x) ==
    \/ x \in RegisteredFor(RegsOf(RootOf(i)), calls[i].t)
    \/ \E q \in Fns \ {f} :
          /\ heap[calls[i].w].sup[q] >= 1
          /\ x \in ContainerAdjustersIn(q, calls[i].t)

\* C38: in the builder's wiring and in every built wiring, every function in
\* a wiring-adjuster list is a key of the resolution map with the unresolved
\* marker; in the working wiring of a creation it is a key, and its marker is
\* unresolved exactly when neither this creation nor one it descends from has
\* invoked it; and a creation applies no container adjuster that only a
\* wiring adjuster with the unresolved marker would supply.
C38_PendingAdjustersAreKeys ==
    /\ builder # 0 => \A f \in PendingIn(builder) : heap[builder].sup[f] = NULL
    /\ \A b \in 1..Len(built) :
          \A f \in PendingIn(built[b]) : heap[built[b]].sup[f] = NULL
    /\ \A i \in 1..Len(calls) :
          calls[i].w # 0 =>
              /\ \A f \in PendingIn(calls[i].w) :
                    /\ heap[calls[i].w].sup[f] # UNDEF
                    /\ heap[calls[i].w].sup[f] = NULL <=> f \notin InvokedUpTo(i)
              /\ \A f \in Fns :
                    heap[calls[i].w].sup[f] = NULL =>
                        \A x \in ContainerAdjustersIn(f, calls[i].t) :
                            x \in Elems(CALog(calls[i])) => OtherSource(i, f, x)

\* the builder added a wiring that registers base adjuster f, and registered
\* after-adjuster g of A: the creation of A has invoked f and is applying the
\* x that f supplies, while g is pending with the unresolved marker and the
\* y that g supplies is not applied
C38_Witness ==
    /\ regs = <<OpAW(4), OpWA(TA, "g")>>
    /\ Len(calls) = 1
    /\ calls[1].pc = "ca"
    /\ calls[1].log = <<WAEvent("f", 0), CAEvent("x", <<>>, 1)>>
    /\ PendingIn(calls[1].w) = {"g"}
    /\ heap[calls[1].w].sup["g"] = NULL
    /\ heap[calls[1].w].sup["f"] >= 1

---------------------------------------------------------------------------
(* SpecSentinel: the definition phase alone. A builder starts empty or      *)
(* imports a library wiring, then registers container adjusters for related *)
(* and unrelated types and wiring adjusters of both kinds, and adds library *)
(* wirings that hold wiring adjusters and container types of their own      *)

MaxOpsSentinel == 3    \* builder calls, in SpecSentinel

TOther == <<"C">>

\* two more library wirings: one registers its container type before its base
\* adjuster, the other an after-adjuster and then a deeper type
SentinelLibRegs ==
    << <<OpAC(TAB, "z"), OpBW("f")>>,
       <<OpWA(TA, "g"), OpAC(TABC, "b")>> >>

SentinelLib(n) == Len(LibRegs) + n

InitSentinel ==
    /\ heap = LibHeap \o [i \in 1..Len(SentinelLibRegs) |->
                             WiringCopy(RunProgram(<<>>, EmptyWiring("Wiring"),
                                                   SentinelLibRegs[i]))]
    /\ builder = 0
    /\ nops = 0
    /\ regs = <<>>
    /\ built = <<>>
    /\ builtAt = <<>>
    /\ calls = <<>>

SentinelOps ==
    {OpAC(TA, "a"), OpAC(TAB, "b"), OpAC(TOther, "a"), OpBW("n"), OpWA(TAB, "h"),
     OpAW(SentinelLib(1)), OpAW(SentinelLib(2)), OpAW(3)}

NextSentinel ==
    \/ \E src \in {0, SentinelLib(1), SentinelLib(2)} : NewBuilder(src)
    \/ \E op \in SentinelOps : BuilderCall(op, MaxOpsSentinel)

SpecSentinel == InitSentinel /\ [][NextSentinel]_vars

---------------------------------------------------------------------------
(* C39 *)

\* the builder calls that made library wiring l
LibProgram(l) ==
    IF l <= Len(LibRegs) THEN LibRegs[l] ELSE SentinelLibRegs[l - Len(LibRegs)]

\* the wiring adjusters the calls rs register themselves
DirectWiringAdjusters(rs) ==
    {rs[n].fn : n \in {m \in 1..Len(rs) : rs[m].op \in {"bw", "wa"}}}

\* the wiring adjusters registered by the calls rs, directly or through an
\* imported or added wiring
RegisteredWiringAdjusters(rs) ==
    DirectWiringAdjusters(rs)
        \cup UNION {DirectWiringAdjusters(LibProgram(rs[n].lib)) :
                       n \in {m \in 1..Len(rs) : rs[m].op \in {"aw", "import"}}}

\* the container types the calls rs name themselves
DirectTypes(rs) ==
    {rs[n].t : n \in {m \in 1..Len(rs) : rs[m].op \in {"ac", "wa"}}}

\* the container types named by the calls rs, directly or through an imported
\* or added wiring
NamedTypes(rs) ==
    DirectTypes(rs)
        \cup UNION {DirectTypes(LibProgram(rs[n].lib)) :
                       n \in {m \in 1..Len(rs) : rs[m].op \in {"aw", "import"}}}

\* C39: in the builder's wiring every container type named so far has a raw
\* container-adjuster list, and every wiring adjuster registered so far,
\* directly or through an imported or added wiring, is in every raw list:
\* those of types named before it, after it, and outside its scope.
C39_SentinelInEveryType ==
    builder # 0 =>
        /\ \A T \in NamedTypes(regs) : Has(heap[builder].ca, CKey(T))
        /\ \A f \in RegisteredWiringAdjusters(regs) :
              \A n \in 1..Len(heap[builder].ca) :
                  \E m \in 1..Len(heap[builder].ca[n].l) :
                      heap[builder].ca[n].l[m] = f

\* after-adjuster h was registered for A.B, then the unrelated type C was
\* named, then a wiring with type A.B and base adjuster f was added: the
\* lists of A.B and of C hold both sentinels
C39_Witness ==
    /\ builder # 0
    /\ regs = <<OpWA(TAB, "h"), OpAC(TOther, "a"), OpAW(SentinelLib(1))>>
    /\ Get(heap[builder].ca, CKey(TAB)) = <<"h", "z", "f">>
    /\ Get(heap[builder].ca, CKey(TOther)) = <<"h", "a", "f">>
    /\ Get(heap[builder].ca, ROOT) = <<"h", "f">>

====
